---------------------------- MODULE Spec2Model ----------------------------
(***************************************************************************)
(* A model of z2api-go: the gateway that translates OpenAI / Anthropic     *)
(* chat requests to the Z.ai upstream and rewrites its phase-tagged SSE    *)
(* stream back.                                                            *)
(*                                                                         *)
(* Text is modelled as a sequence of atoms.  An atom is a literal piece of *)
(* text; the text of a sequence is the concatenation of its atoms.  The    *)
(* atoms are chosen so that every regular expression and every substring   *)
(* test of the source either matches whole atoms or none: no atom but ">"  *)
(* starts with '>', every atom that holds a '>' holds exactly one, as its  *)
(* last character, and no tag text straddles two atoms.                    *)
(***************************************************************************)
EXTENDS Integers, Sequences, FiniteSets, TLC

VARIABLES
  thinkMode,     \* cfg.API.Think, fixed once the configuration is loaded
  environ,       \* THINK_TAGS_MODE in the environment of the process ("": unset)
  phaseBak,      \* the package variable phaseBak of services (process-wide)
  fmtCall,       \* one call of FormatResponse: its arguments and where it stands
  fmtDelta,      \* the map that call returned
  lines,         \* the lines of the upstream response body (resp.Body)
  pos,           \* the lines the bufio.Scanner of ParseSSEStream has taken
  bodyClosed,    \* resp.Body.Close() has run (deferred by the handler)
  prodPc,        \* the ParseSSEStream goroutine: "idle", "scan", "send", "done"
  prodItem,      \* the event it offers on the unbuffered channel ch
  delivered,     \* the events the caller has received from ch
  path,          \* the response path: the handler and its stream flag
  hPc,           \* the handler: "start", "loop", "returned" ("idle": no request)
  toolCallParts, \* the handler's toolCallParts
  textParts,     \* the handler's textParts (contentParts in ChatCompletions)
  reasoningParts,\* the handler's reasoningParts
  hasToolCall,   \* the handler's hasToolCall
  out,           \* what the handler has written to the client, in order
  stream,        \* concurrent requests: for each its events, its place in
                 \* FormatResponse, what it read from phaseBak and its deltas
  log,           \* the calls of FormatResponse of all requests, in order of return
  overlapped,    \* some call of FormatResponse began while another was running
  sigCall,       \* one call of GenerateSignature: its arguments and where it stands
  sigResult,     \* what that call returned
  sigLog,        \* calls of GenerateSignature one after the other: arguments and result
  token,         \* cfg.Source.Token; cfg.API.Anonymous is token = ""
  cache,         \* UserService.cache: token -> the cached user and when it was stored
  now,           \* the wall clock, in minutes
  upstream,      \* the requests made to the upstream, in order
  sendResult,    \* what the last call of SendChatRequest returned
  modelCache,    \* ModelsService.cache: the model catalogue, once fetched
  mapping,       \* cfg.Model.Mapping: upstream model id -> the id shown to clients
  modelCalls,    \* concurrent calls of GetModels: for each where it stands, what it
                 \* fetched and what it returned
  reqCall,       \* one request body given to FormatRequest, and where its handling stands
  reqResult      \* the messages FormatRequest built, and the text extracted from them

fmtVars == <<fmtCall, fmtDelta>>
cfgVars == <<thinkMode, environ>>
sseVars == <<lines, pos, bodyClosed, prodPc, prodItem, delivered>>
handlerVars == <<path, hPc, toolCallParts, textParts, reasoningParts, hasToolCall, out>>
raceVars == <<stream, log, overlapped>>
sigVars == <<sigCall, sigResult, sigLog>>
sendVars == <<token, cache, now, upstream, sendResult, modelCache, mapping, modelCalls>>
normVars == <<reqCall, reqResult>>
vars == <<thinkMode, environ, phaseBak, fmtCall, fmtDelta, lines, pos, bodyClosed, prodPc, prodItem,
          delivered, path, hPc, toolCallParts, textParts, reasoningParts, hasToolCall, out,
          stream, log, overlapped, sigCall, sigResult, sigLog, token, cache, now, upstream,
          sendResult, modelCache, mapping, modelCalls, reqCall, reqResult>>

\* What each specification leaves alone.
fmtRest == <<normVars, cfgVars, sseVars, handlerVars, raceVars, sigVars, sendVars>>
streamRest == <<normVars, cfgVars, fmtVars, raceVars, sigVars, sendVars>>
raceRest == <<normVars, cfgVars, fmtVars, sseVars, handlerVars, sigVars, sendVars>>
sigRest == <<normVars, cfgVars, phaseBak, fmtVars, sseVars, handlerVars, raceVars, sendVars>>
sendRest == <<normVars, cfgVars, phaseBak, fmtVars, sseVars, handlerVars, raceVars, sigVars>>
normRest == <<cfgVars, phaseBak, fmtVars, sseVars, handlerVars, raceVars, sigVars, sendVars>>

(***************************************************************************)
(* Atoms                                                                   *)
(***************************************************************************)
NL == "\n"
SP == " "
GT == ">"
TX == "x"
DetailsOpen == "<details"
DetailsClose == "</details>"
SummaryOpen == "<summary>"
SummaryClose == "</summary>"
ReasoningOpen == "<reasoning>"
ReasoningClose == "</reasoning>"
ThinkingClose == "</thinking>"
FullOpen == "<Full>"
FullClose == "</Full>"
Duration7 == "duration=\"7\""
GlmOpen == "<glm_block"
GlmClose == "</glm_block>"
McpHead == "{\"type\": \"mcp\", \"data\": {\"metadata\": {"
ResultEmpty == "\", \"result\": \"\""
DisplayEmpty == "null, \"display_result\": \"\""
LBrace == "{"
RBrace == "}"
Quote == "\""
Comma == ","
NullTok == "null"
MemberId == "\"id\":\"1\""
MemberName == "\"name\":\"x\""
MemberArgsOpen == "\"arguments\":\"{\\\"a\\\":1}"
MemberArgsList == "\"arguments\":\"[1]\""
MemberArgsNum == "\"arguments\":1"

\* The atoms whose text holds the character '>' (always as the last one).
HasGt(a) ==
  a \in {GT, DetailsClose, SummaryOpen, SummaryClose, ReasoningOpen,
         ReasoningClose, ThinkingClose, FullOpen, FullClose, GlmClose,
         "<think>", "</think>", "<div>", "</div>"}

\* \s of the regular expressions, and the cutset of strings.TrimSpace.
IsSpace(a) == a \in {NL, SP}

\* The digits of a duration="N" atom (the capture group of duration="(\d+)").
DurationDigits(a) == IF a = Duration7 THEN "7" ELSE "0"

(***************************************************************************)
(* Text helpers: strings.Contains, strings.ReplaceAll, strings.TrimLeft,   *)
(* strings.TrimSpace and regexp.ReplaceAllString on atom sequences.        *)
(***************************************************************************)
Tail0(s, i) == SubSeq(s, i, Len(s))

\* strings.Contains(s, text) for a text that occurs only inside the atoms of `atoms`.
ContainsAtom(s, atoms) == \E i \in 1..Len(s) : s[i] \in atoms

\* The index after the run of "\n" starting at i (i itself when s[i] is no newline).
RECURSIVE SkipNL(_, _)
SkipNL(s, i) == IF i <= Len(s) /\ s[i] = NL THEN SkipNL(s, i + 1) ELSE i

\* The first index j >= i with s[j] in `atoms`, 0 when there is none.
RECURSIVE FirstIn(_, _, _)
FirstIn(s, i, atoms) ==
  IF i > Len(s) THEN 0
  ELSE IF s[i] \in atoms THEN i
  ELSE FirstIn(s, i + 1, atoms)

\* The first index j >= i whose atom holds '>', 0 when there is none: where [^>]*> ends.
RECURSIVE FirstGt(_, _)
FirstGt(s, i) ==
  IF i > Len(s) THEN 0
  ELSE IF HasGt(s[i]) THEN i
  ELSE FirstGt(s, i + 1)

\* The first index j >= i with s[j] = a and no "\n" in s[i..j-1], 0 when none:
\* where .*?a ends ('.' does not match a newline).
RECURSIVE FirstOnLine(_, _, _)
FirstOnLine(s, i, a) ==
  IF i > Len(s) THEN 0
  ELSE IF s[i] = a THEN i
  ELSE IF s[i] = NL THEN 0
  ELSE FirstOnLine(s, i + 1, a)

\* The last index j >= i with s[j] = a and no "\n" in s[i..j-1], 0 when none:
\* where the greedy .*a ends.
RECURSIVE LastOnLine(_, _, _)
LastOnLine(s, i, a) ==
  IF i > Len(s) THEN 0
  ELSE IF s[i] = NL THEN 0
  ELSE LET later == LastOnLine(s, i + 1, a) IN
       IF later # 0 THEN later ELSE IF s[i] = a THEN i ELSE 0

\* strings.TrimLeft(s, "\n")
TrimLeftNL(s) == Tail0(s, SkipNL(s, 1))

\* strings.TrimSpace(s) != ""
HasNonSpace(s) == \E i \in 1..Len(s) : ~IsSpace(s[i])

(***************************************************************************)
(* The regular expressions of FormatResponse, each as the index after the  *)
(* match starting at i (0: no match at i).                                 *)
(***************************************************************************)
\* \n*<glm_block[^>]*>\{"type": "mcp", "data": \{"metadata": \{
ReGlmHead(s, i) ==
  LET p == SkipNL(s, i) IN
  IF p > Len(s) \/ s[p] # GlmOpen THEN 0
  ELSE LET g == FirstGt(s, p + 1) IN
       IF g = 0 \/ g + 1 > Len(s) \/ s[g + 1] # McpHead THEN 0 ELSE g + 2

\* ", "result": "".*</glm_block>
ReGlmResult(s, i) ==
  IF s[i] # ResultEmpty THEN 0
  ELSE LET c == LastOnLine(s, i + 1, GlmClose) IN IF c = 0 THEN 0 ELSE c + 1

\* null, "display_result": "".*</glm_block>
ReGlmDisplay(s, i) ==
  IF s[i] # DisplayEmpty THEN 0
  ELSE LET c == LastOnLine(s, i + 1, GlmClose) IN IF c = 0 THEN 0 ELSE c + 1

\* (?s)<details[^>]*?>.*?</details>
ReDetailsBlock(s, i) ==
  IF s[i] # DetailsOpen THEN 0
  ELSE LET g == FirstGt(s, i + 1) IN
       IF g = 0 THEN 0
       ELSE LET c == FirstIn(s, g + 1, {DetailsClose}) IN
            IF c = 0 THEN 0 ELSE c + 1

\* \n*<summary>.*?</summary>\n*
ReSummaryBlock(s, i) ==
  LET p == SkipNL(s, i) IN
  IF p > Len(s) \/ s[p] # SummaryOpen THEN 0
  ELSE LET c == FirstOnLine(s, p + 1, SummaryClose) IN
       IF c = 0 THEN 0 ELSE SkipNL(s, c + 1)

\* <details[^>]*>\n*
ReDetailsOpen(s, i) ==
  IF s[i] # DetailsOpen THEN 0
  ELSE LET g == FirstGt(s, i + 1) IN IF g = 0 THEN 0 ELSE SkipNL(s, g + 1)

\* \n*</details>
ReDetailsClose(s, i) ==
  LET p == SkipNL(s, i) IN
  IF p > Len(s) \/ s[p] # DetailsClose THEN 0 ELSE p + 1

\* \n>\s?
ReQuote(s, i) ==
  IF s[i] # NL \/ i + 1 > Len(s) \/ s[i + 1] # GT THEN 0
  ELSE IF i + 2 <= Len(s) /\ IsSpace(s[i + 2]) THEN i + 3 ELSE i + 2

\* <reasoning>\n*
ReReasoningOpen(s, i) ==
  IF s[i] # ReasoningOpen THEN 0 ELSE SkipNL(s, i + 1)

\* \n*</reasoning>
ReReasoningCloseNL(s, i) ==
  LET p == SkipNL(s, i) IN
  IF p > Len(s) \/ s[p] # ReasoningClose THEN 0 ELSE p + 1

\* </reasoning>
ReReasoningClose(s, i) == IF s[i] # ReasoningClose THEN 0 ELSE i + 1

\* The index after the match of expression re that starts at s[i], 0 when re does
\* not match there.  A name that is none of the expressions is a one-atom literal.
Match(re, s, i) ==
  CASE re = "ReGlmHead" -> ReGlmHead(s, i)
    [] re = "ReGlmResult" -> ReGlmResult(s, i)
    [] re = "ReGlmDisplay" -> ReGlmDisplay(s, i)
    [] re = "ReDetailsBlock" -> ReDetailsBlock(s, i)
    [] re = "ReSummaryBlock" -> ReSummaryBlock(s, i)
    [] re = "ReDetailsOpen" -> ReDetailsOpen(s, i)
    [] re = "ReDetailsClose" -> ReDetailsClose(s, i)
    [] re = "ReQuote" -> ReQuote(s, i)
    [] re = "ReReasoningOpen" -> ReReasoningOpen(s, i)
    [] re = "ReReasoningCloseNL" -> ReReasoningCloseNL(s, i)
    [] re = "ReReasoningClose" -> ReReasoningClose(s, i)
    [] OTHER -> IF s[i] = re THEN i + 1 ELSE 0

\* regexp.ReplaceAllString from index i on: matches are taken leftmost and do not
\* overlap.
RECURSIVE ReplaceFrom(_, _, _, _)
ReplaceFrom(re, s, i, rep) ==
  IF i > Len(s) THEN <<>>
  ELSE LET e == Match(re, s, i) IN
       IF e > 0 THEN rep \o ReplaceFrom(re, s, e, rep)
       ELSE <<s[i]>> \o ReplaceFrom(re, s, i + 1, rep)

\* regexp.MustCompile(re).ReplaceAllString(s, rep)
ReplaceAllRe(re, s, rep) == ReplaceFrom(re, s, 1, rep)

\* strings.ReplaceAll(s, a, rep) for a one-atom text a.
ReplaceAllAtom(s, a, rep) == ReplaceFrom(a, s, 1, rep)

\* (?s)^(.*?</reasoning>)(.*)$ : the index of the first </reasoning>, 0 when the
\* expression does not match.
SplitAtClose(s) == FirstIn(s, 1, {ReasoningClose})

\* (?s)<summary>.*?</summary> with FindString: the first match, <<>> when none.
FindSummary(s) ==
  LET p == FirstIn(s, 1, {SummaryOpen}) IN
  IF p = 0 THEN <<>>
  ELSE LET c == FirstIn(s, p + 1, {SummaryClose}) IN
       IF c = 0 THEN <<>> ELSE SubSeq(s, p, c)

\* duration="(\d+)" with FindStringSubmatch: the index of the first match, 0 when none.
FindDuration(s) == FirstIn(s, 1, {Duration7})

(***************************************************************************)
(* FormatResponse (services/response): one upstream event to one delta.    *)
(***************************************************************************)
\* The nil map FormatResponse returns for "no delta".
Nil == [nil |-> TRUE]

\* A nil *types.ZaiResponse, and a response whose Data is nil.
NilResponse == [isNil |-> TRUE]
NoData == [isNil |-> FALSE, hasData |-> FALSE]

ZaiResponse(phase, delta, edit, done) ==
  [isNil |-> FALSE, hasData |-> TRUE, Phase |-> phase, DeltaContent |-> delta,
   EditContent |-> edit, Done |-> done]

HasData(data) == ~data.isNil /\ data.hasData

\* A mutant of EventPhase: a missing label stays empty.
EventPhaseRaw(data) == data.Phase

\* Lines 57-60: the phase label, "other" for an empty one.
EventPhase(data) == IF data.Phase = "" THEN "other" ELSE data.Phase

\* Lines 62-65: the delta text, or the edit text when the delta is empty.
EventContent(data) ==
  IF data.DeltaContent = <<>> THEN data.EditContent ELSE data.DeltaContent

\* A mutant of NoDelta: the early return of lines 66-68 is missing.
NoDeltaNilOnly(data) == ~HasData(data)

\* Lines 53-55 and 66-68: the early returns of nil.
NoDelta(data) == ~HasData(data) \/ EventContent(data) = <<>>

\* A mutant of ToolCallRewrite: an event labelled other stays other.
ToolCallRewriteLabelled(phase, content, pb) ==
  IF phase = "tool_call"
  THEN [phase |-> phase,
        content |-> ReplaceAllRe("ReGlmResult",
                      ReplaceAllRe("ReGlmHead", content, <<LBrace>>), <<>>)]
  ELSE [phase |-> phase, content |-> content]

\* Lines 72-79: the tool_call phase and the "other" continuation of a paused one.
\* pb is the value read from phaseBak at line 76.
ToolCallRewrite(phase, content, pb) ==
  IF phase = "tool_call"
  THEN [phase |-> phase,
        content |-> ReplaceAllRe("ReGlmResult",
                      ReplaceAllRe("ReGlmHead", content, <<LBrace>>), <<>>)]
  ELSE IF phase = "other" /\ pb = "tool_call" /\ ContainsAtom(content, {GlmOpen, GlmClose})
  THEN [phase |-> "tool_call",
        content |-> ReplaceAllRe("ReGlmDisplay", content, <<Quote, RBrace>>)]
  ELSE [phase |-> phase, content |-> content]

\* Line 86: the guard of the thinking/answer rewrite.
IsReasoningEvent(phase, content) ==
  phase = "thinking" \/ (phase = "answer" /\ ContainsAtom(content, {SummaryOpen, SummaryClose}))

\* Lines 88-99: strip the details wrappers and turn the rest into <reasoning> tags.
ToReasoningTags(phase, content) ==
  LET c1 == ReplaceAllRe("ReDetailsBlock", content, <<>>)
      c2 == ReplaceAllAtom(c1, ThinkingClose, <<>>)
      c3 == ReplaceAllAtom(c2, FullOpen, <<>>)
      c4 == ReplaceAllAtom(c3, FullClose, <<>>)
      c5 == IF phase = "thinking"
            THEN ReplaceAllRe("ReSummaryBlock", c4, <<NL, NL>>) ELSE c4
      c6 == ReplaceAllRe("ReDetailsOpen", c5, <<ReasoningOpen, NL, NL>>)
  IN ReplaceAllRe("ReDetailsClose", c6, <<NL, NL, ReasoningClose>>)

\* A mutant of AnswerPause: the previous phase is taken to be thinking.
AnswerPauseAlways(phase, content, pb110, pb113) ==
  LET k == SplitAtClose(content) IN
  IF phase # "answer" \/ k = 0 THEN content
  ELSE IF HasNonSpace(Tail0(content, k + 1))
  THEN <<NL, NL, ReasoningClose, NL, NL>> \o TrimLeftNL(Tail0(content, k + 1))
  ELSE <<NL, NL, ReasoningClose>>

\* Lines 101-123: an answer event that holds the reasoning close.  pb110 and pb113
\* are the values read from phaseBak at lines 110 and 113.
AnswerPause(phase, content, pb110, pb113) ==
  LET k == SplitAtClose(content) IN
  IF phase # "answer" \/ k = 0 THEN content
  ELSE LET after == Tail0(content, k + 1) IN
       IF HasNonSpace(after)
       THEN IF pb110 = "thinking"
            THEN <<NL, NL, ReasoningClose, NL, NL>> \o TrimLeftNL(after)
            ELSE IF pb113 = "answer" THEN <<>> ELSE content
       ELSE <<NL, NL, ReasoningClose>>

\* Lines 154-177: the trailer of the details close.
DetailsThoughts(phase, content) ==
  IF phase # "answer" THEN <<>>
  ELSE LET k == SplitAtClose(content)
           before == IF k = 0 THEN <<>> ELSE SubSeq(content, 1, k)
           summaryMatch == FindSummary(before)
           d == FindDuration(before)
       IN IF summaryMatch # <<>> THEN <<NL, NL>> \o summaryMatch
          ELSE IF d # 0
          THEN <<NL, NL, SummaryOpen, "Thought for " \o DurationDigits(before[d]) \o " seconds",
                 SummaryClose>>
          ELSE <<>>

\* Lines 126-182: the switch on cfg.API.Think.
ApplyThinkMode(mode, phase, content) ==
  LET unquoted == IF phase = "thinking"
                  THEN ReplaceAllRe("ReQuote", content, <<NL>>) ELSE content
  IN CASE mode = "reasoning" ->
            ReplaceAllRe("ReReasoningCloseNL",
              ReplaceAllRe("ReReasoningOpen",
                ReplaceAllRe("ReSummaryBlock", unquoted, <<>>), <<>>), <<>>)
       [] mode = "think" ->
            ReplaceAllAtom(
              ReplaceAllAtom(ReplaceAllRe("ReSummaryBlock", unquoted, <<>>),
                             ReasoningOpen, <<"<think>">>),
              ReasoningClose, <<"</think>">>)
       [] mode = "strip" ->
            ReplaceAllRe("ReReasoningClose",
              ReplaceAllRe("ReReasoningOpen",
                ReplaceAllRe("ReSummaryBlock", content, <<>>), <<>>), <<>>)
       [] mode = "details" ->
            LET opened == ReplaceAllAtom(unquoted, ReasoningOpen,
                            <<DetailsOpen, " type=\"reasoning\" open", GT, "<div>">>)
            IN ReplaceAllRe("ReReasoningClose", opened,
                 <<"</div>">> \o DetailsThoughts(phase, opened) \o <<DetailsClose>>)
       [] OTHER ->
            ReplaceAllRe("ReReasoningClose", content, <<ReasoningClose, NL, NL>>)

\* A mutant of BuildDelta: a thinking event gives reasoning text in every mode.
BuildDeltaAnyMode(phase, content, mode, responseType) ==
  IF phase = "thinking"
  THEN IF responseType = "Anthropic"
       THEN [type |-> "thinking_delta", thinking |-> content]
       ELSE [role |-> "assistant", reasoning_content |-> content]
  ELSE IF phase = "tool_call" THEN [tool_call |-> content]
  ELSE IF content # <<>>
  THEN IF responseType = "Anthropic"
       THEN [type |-> "text_delta", text |-> content]
       ELSE [role |-> "assistant", content |-> content]
  ELSE [nil |-> TRUE]

\* Lines 187-220: the delta returned for the final phase and content.
BuildDelta(phase, content, mode, responseType) ==
  IF phase = "thinking" /\ mode = "reasoning"
  THEN IF responseType = "Anthropic"
       THEN [type |-> "thinking_delta", thinking |-> content]
       ELSE [role |-> "assistant", reasoning_content |-> content]
  ELSE IF phase = "tool_call" THEN [tool_call |-> content]
  ELSE IF content # <<>>
  THEN IF responseType = "Anthropic"
       THEN [type |-> "text_delta", text |-> content]
       ELSE [role |-> "assistant", content |-> content]
  ELSE Nil

\* FormatResponse with the three reads of phaseBak (lines 76, 110, 113) given one by
\* one: [delta, wrote, phaseBak], where wrote says whether line 185 was reached and
\* phaseBak is the value it stores.
FormatResponseReads(data, responseType, mode, pb76, pb110, pb113) ==
  IF NoDelta(data)
  THEN [delta |-> Nil, wrote |-> FALSE, phaseBak |-> pb76]
  ELSE LET t == ToolCallRewrite(EventPhase(data), EventContent(data), pb76)
           content == IF IsReasoningEvent(t.phase, t.content)
                      THEN ApplyThinkMode(mode, t.phase,
                             AnswerPause(t.phase, ToReasoningTags(t.phase, t.content),
                                         pb110, pb113))
                      ELSE t.content
       IN [delta |-> BuildDelta(t.phase, content, mode, responseType),
           wrote |-> TRUE, phaseBak |-> t.phase]

\* FormatResponse run without interference: every read of phaseBak sees pb.
FormatResponse(data, responseType, mode, pb) ==
  FormatResponseReads(data, responseType, mode, pb, pb, pb)

(***************************************************************************)
(* encoding/json on atom sequences: json.Unmarshal of a tool-call text     *)
(* into a map[string]interface{} (handlers, "Try to parse complete tool    *)
(* call").  The atoms of such texts are braces, commas, quotes, whole      *)
(* members ("id":"1"), a member whose string value is still open           *)
(* ("arguments":"{\"a\":1}), null, newlines and other text.                *)
(***************************************************************************)
JsonMembers == {MemberId, MemberName, MemberArgsList, MemberArgsNum}

\* The field a member atom sets, and the kind of its value.
MemberKey(a) ==
  CASE a = MemberId -> "id" [] a = MemberName -> "name" [] OTHER -> "arguments"

MemberValue(a) ==
  CASE a = MemberId -> "1"
    [] a = MemberName -> "x"
    [] a = MemberArgsList -> "string:[1]"
    [] a = MemberArgsNum -> "number:1"
    [] OTHER -> "?"

\* The scanner and decoder state after one more atom.  st.at is where the scanner
\* stands: "start" (before the value), "open" (after '{'), "member" (after a member),
\* "comma" (after ','), "string" (inside the open arguments string), "end" (after the
\* value), "fail" (a syntax error, or a value that is neither an object nor null).
\* st.obj maps the keys decoded so far to their values; st.isNull says the value is
\* the literal null; st.dirty says the open string holds more than {"a":1} and
\* blanks.  Inside the open string an atom that starts with '"' closes it: the
\* lone quote, and ", "result": "" which goes on with one more member; an atom
\* that holds a later '"' or a raw newline is a syntax error.  The texts decoded
\* here never hold the nested opening McpHead outside a string.
JsonStep(st, a) ==
  LET fail == [st EXCEPT !.at = "fail"] IN
  CASE st.at = "fail" -> st
    [] st.at = "string" ->
         IF a = Quote
         THEN [st EXCEPT !.at = "member",
                         !.obj = [k \in DOMAIN st.obj \cup {"arguments"} |->
                                    IF k = "arguments"
                                    THEN (IF st.dirty THEN "string:other" ELSE "string:object")
                                    ELSE st.obj[k]]]
         ELSE IF a = ResultEmpty
         THEN [st EXCEPT !.at = "member",
                         !.obj = [k \in DOMAIN st.obj \cup {"arguments", "result"} |->
                                    IF k = "arguments"
                                    THEN (IF st.dirty THEN "string:other" ELSE "string:object")
                                    ELSE IF k = "result" THEN "" ELSE st.obj[k]]]
         ELSE IF a \in {NL, McpHead, DisplayEmpty, MemberArgsOpen} \cup JsonMembers
         THEN fail
         ELSE IF a = SP THEN st
         ELSE [st EXCEPT !.dirty = TRUE]
    [] IsSpace(a) -> st
    [] st.at = "start" ->
         IF a = LBrace THEN [st EXCEPT !.at = "open"]
         ELSE IF a = NullTok THEN [st EXCEPT !.at = "end", !.isNull = TRUE]
         ELSE fail
    [] st.at \in {"open", "comma"} ->
         IF a \in JsonMembers
         THEN [st EXCEPT !.at = "member",
                         !.obj = [k \in DOMAIN st.obj \cup {MemberKey(a)} |->
                                    IF k = MemberKey(a) THEN MemberValue(a) ELSE st.obj[k]]]
         ELSE IF a = MemberArgsOpen THEN [st EXCEPT !.at = "string", !.dirty = FALSE]
         ELSE IF a = RBrace /\ st.at = "open" THEN [st EXCEPT !.at = "end"]
         ELSE fail
    [] st.at = "member" ->
         IF a = Comma THEN [st EXCEPT !.at = "comma"]
         ELSE IF a = RBrace THEN [st EXCEPT !.at = "end"]
         ELSE fail
    [] OTHER -> fail

RECURSIVE JsonScan(_, _, _)
JsonScan(st, s, i) ==
  IF i > Len(s) THEN st ELSE JsonScan(JsonStep(st, s[i]), s, i + 1)

NoFields == [k \in {} |-> ""]

\* json.Unmarshal([]byte(text), &toolJSON) with toolJSON a nil map: err says whether
\* an error is returned; isNil whether toolJSON is still nil (the text was null);
\* obj is the decoded object.
Unmarshal(text) ==
  LET st == JsonScan([at |-> "start", obj |-> NoFields, isNull |-> FALSE, dirty |-> FALSE],
                     text, 1)
  IN [err |-> st.at # "end", isNil |-> st.at = "end" /\ st.isNull,
      obj |-> IF st.at = "end" THEN st.obj ELSE NoFields]

\* strings.Join(parts, "")
RECURSIVE Join(_)
Join(parts) == IF parts = <<>> THEN <<>> ELSE parts[1] \o Join(Tail(parts))

(***************************************************************************)
(* Bounds and input sets                                                   *)
(***************************************************************************)
\* The longest event text, in atoms, that a single FormatResponse call is given.
MaxContentLen == 3

\* All sequences over `atoms` of length at most n.
SeqsUpTo(atoms, n) == UNION {[1..k -> atoms] : k \in 0..n}

\* The markup the upstream sends in thinking and answer events.
MarkupAtoms ==
  {NL, GT, TX, DetailsOpen, DetailsClose, SummaryOpen, SummaryClose, Duration7}

\* Blockquoted reasoning text: "> " markers, text and line ends.
QuoteAtoms == {NL, GT, SP, TX}

\* The wrapper the upstream sends around tool-call text.
WrapperAtoms ==
  {NL, GT, GlmOpen, GlmClose, McpHead, ResultEmpty, DisplayEmpty, LBrace}

\* The modes validate() knows; "bogus" stands for any other text THINK_TAGS_MODE
\* may hold, and "" for an unset or empty one.
ThinkModes == {"reasoning", "think", "strip", "details"}
AnyThinkModes == ThinkModes \cup {"bogus"}
EnvThinkModes == AnyThinkModes \cup {""}

\* config 131-136: the value of an environment variable, or the default.
getEnv(value, defaultValue) == IF value # "" THEN value ELSE defaultValue

\* A mutant of validate: the think mode is left as configured.
validateNothing(think) == think

\* config 107-120: a think mode that is none of the four becomes "reasoning".
validate(think) == IF think \in ThinkModes THEN think ELSE "reasoning"

\* config 52-85: cfg.API.Think as loadConfig() leaves it.
loadConfig(env) == validate(getEnv(env, "reasoning"))

\* config 42-50, main 16: the configuration was loaded with THINK_TAGS_MODE = env
\* before the server began to listen.
GetConfig(env) == environ = env /\ thinkMode = loadConfig(env)

\* The phase labels of upstream events ("" is a missing label).
Phases == {"thinking", "answer", "tool_call", "other", ""}

\* The values phaseBak can hold: its initial value and every phase line 185 stores.
PhaseBakValues == {"thinking", "answer", "tool_call", "other"}

ResponseTypes == {"OpenAI", "Anthropic"}

(***************************************************************************)
(* SpecFmt: single calls of FormatResponse.                                *)
(***************************************************************************)
NoCall == [pc |-> "idle"]

\* No response body is being read, and no request is being handled.
NoStream ==
  /\ lines = <<>> /\ pos = 0 /\ bodyClosed = FALSE
  /\ prodPc = "idle" /\ prodItem = NilResponse /\ delivered = <<>>

NoRequest ==
  /\ path = "none" /\ hPc = "idle"
  /\ toolCallParts = <<>> /\ textParts = <<>> /\ reasoningParts = <<>>
  /\ hasToolCall = FALSE /\ out = <<>>

\* No call of FormatResponse is followed on its own, and no requests run side by side.
NoFmt == fmtCall = NoCall /\ fmtDelta = Nil

NoRace == stream = <<>> /\ log = <<>> /\ overlapped = FALSE

NoSig == sigCall = NoCall /\ sigResult = Nil /\ sigLog = <<>>

\* No upstream is talked to: no token, an empty user cache, nothing sent.
NoSend ==
  /\ token = "" /\ cache = <<>> /\ now = 0 /\ upstream = <<>> /\ sendResult = Nil
  /\ modelCache = Nil /\ mapping = <<>> /\ modelCalls = <<>>

\* No request body is being normalised.
NoNorm == reqCall = NoCall /\ reqResult = Nil

\* One call of FormatResponse(data, rt) with THINK_TAGS_MODE = env and phaseBak = pb.
FmtStart(data, rt, env, pb) ==
  /\ GetConfig(env)
  /\ phaseBak = pb
  /\ fmtCall = [pc |-> "called", data |-> data, responseType |-> rt, phaseBak |-> pb]
  /\ fmtDelta = Nil
  /\ NoStream
  /\ NoRequest
  /\ NoRace
  /\ NoSig
  /\ NoSend
  /\ NoNorm

\* The calls SpecFmt makes: every markup text in the thinking and answer phases,
\* blockquoted text in the thinking phase, every wrapper text in the tool_call and
\* other phases, and every combination of phase, mode, response type and phaseBak
\* on the short, empty and missing event data.
FmtInit ==
  \/ \E c \in SeqsUpTo(MarkupAtoms, MaxContentLen), m \in EnvThinkModes :
       FmtStart(ZaiResponse("thinking", c, <<>>, FALSE), "OpenAI", m, "thinking")
  \/ \E c \in SeqsUpTo(MarkupAtoms, MaxContentLen), m \in EnvThinkModes, pb \in PhaseBakValues :
       FmtStart(ZaiResponse("answer", c, <<>>, FALSE), "Anthropic", m, pb)
  \/ \E c \in SeqsUpTo(QuoteAtoms, MaxContentLen + 1), m \in EnvThinkModes, rt \in ResponseTypes :
       FmtStart(ZaiResponse("thinking", c, <<>>, FALSE), rt, m, "answer")
  \/ \E c \in SeqsUpTo(WrapperAtoms, MaxContentLen), rt \in ResponseTypes :
       FmtStart(ZaiResponse("tool_call", c, <<>>, FALSE), rt, "reasoning", "thinking")
  \/ \E c \in SeqsUpTo(WrapperAtoms, MaxContentLen), ph \in {"other", ""},
        pb \in {"tool_call", "answer"} :
       FmtStart(ZaiResponse(ph, c, <<>>, FALSE), "OpenAI", "details", pb)
  \/ \E ph \in Phases, c \in SeqsUpTo({NL, GT, TX, SummaryClose, GlmClose}, 1), d \in BOOLEAN,
        rt \in ResponseTypes, m \in EnvThinkModes, pb \in PhaseBakValues :
       FmtStart(ZaiResponse(ph, <<>>, c, d), rt, m, pb)
  \/ \E data \in {NilResponse, NoData} \cup {ZaiResponse(ph, <<TX>>, <<GT>>, FALSE) : ph \in Phases},
        rt \in ResponseTypes, m \in EnvThinkModes, pb \in PhaseBakValues :
       FmtStart(data, rt, m, pb)

\* The whole call: the delta it returns and the store to phaseBak at line 185.
FormatResponseCall ==
  /\ fmtCall.pc = "called"
  /\ LET r == FormatResponse(fmtCall.data, fmtCall.responseType, thinkMode, phaseBak) IN
       /\ fmtDelta' = r.delta
       /\ phaseBak' = r.phaseBak
       /\ fmtCall' = [fmtCall EXCEPT !.pc = "returned"]
  /\ UNCHANGED fmtRest

FmtNext == FormatResponseCall

SpecFmt == FmtInit /\ [][FmtNext]_vars

(***************************************************************************)
(* Claims about single calls of FormatResponse                             *)
(***************************************************************************)
FmtReturned == fmtCall.pc = "returned"

\* The event of the call has data, and its delta_content and edit_content are empty.
FmtEmptyEvent ==
  /\ HasData(fmtCall.data)
  /\ fmtCall.data.DeltaContent = <<>>
  /\ fmtCall.data.EditContent = <<>>

\* C3: FormatResponse yields no delta for every event whose delta_content and
\* edit_content are both empty, for every phase, think mode, response type and
\* value of phaseBak.
C3_EmptyEventYieldsNoDelta ==
  (FmtReturned /\ FmtEmptyEvent) => fmtDelta = Nil

\* C3 witness: an empty thinking event was formatted in reasoning mode, the case
\* where a delta is built whatever the content is once line 68 is passed.
C3_Witness ==
  /\ FmtReturned /\ FmtEmptyEvent
  /\ fmtCall.data.Phase = "thinking" /\ thinkMode = "reasoning"
  /\ fmtCall.responseType = "Anthropic" /\ fmtCall.phaseBak = "tool_call"
  /\ fmtDelta = Nil

\* The blockquoted texts of C8: every ">" stands at the start of a line and is
\* followed by a space, so that "> " is a marker wherever it occurs.
IsQuotedText(s) ==
  /\ \A i \in 1..Len(s) : s[i] \in QuoteAtoms
  /\ \A i \in 1..Len(s) :
       s[i] = GT => /\ (i = 1 \/ s[i - 1] = NL)
                    /\ i < Len(s) /\ s[i + 1] = SP
  /\ \E i \in 1..Len(s) : s[i] = GT

\* s without its "> " markers.
RECURSIVE StripMarkers(_)
StripMarkers(s) ==
  IF s = <<>> THEN <<>>
  ELSE IF s[1] = GT THEN StripMarkers(Tail0(s, 3))
  ELSE <<s[1]>> \o StripMarkers(Tail(s))

\* The reasoning text of a delta (thinking for Anthropic, reasoning_content for OpenAI).
ReasoningText(d) ==
  IF "thinking" \in DOMAIN d THEN d.thinking
  ELSE IF "reasoning_content" \in DOMAIN d THEN d.reasoning_content
  ELSE <<"(no reasoning text)">>

\* C8 (as claimed): in reasoning mode the reasoning text of a thinking event has the
\* "> " marker removed from every line, a marker at the very start included.
C8_MarkersStrippedOnEveryLine ==
  (/\ FmtReturned /\ thinkMode = "reasoning"
   /\ HasData(fmtCall.data) /\ fmtCall.data.Phase = "thinking"
   /\ IsQuotedText(fmtCall.data.DeltaContent))
  => ReasoningText(fmtDelta) = StripMarkers(fmtCall.data.DeltaContent)

\* The text of a text delta (text for Anthropic, content for OpenAI).
AnswerText(d) ==
  IF "text" \in DOMAIN d THEN d.text
  ELSE IF "content" \in DOMAIN d THEN d.content
  ELSE <<>>

\* s holds a, b, c next to each other.
HoldsTriple(s, a, b, c) ==
  \E i \in 1..(Len(s) - 2) : s[i] = a /\ s[i + 1] = b /\ s[i + 2] = c

\* The answer event of C9: a duration attribute and the end of the upstream's summary
\* (the summary marker of line 86), then the close of the upstream's details block,
\* nothing after it and no whole summary block before it.
IsDurationClose(s) ==
  /\ Len(s) >= 2 /\ s[Len(s)] = DetailsClose
  /\ \A i \in 1..(Len(s) - 1) : s[i] \notin {DetailsClose, DetailsOpen, SummaryOpen}
  /\ \E i \in 1..(Len(s) - 1) : s[i] = Duration7
  /\ \E i \in 1..(Len(s) - 1) : s[i] = SummaryClose

\* C9 (as claimed): in details mode, after thinking events, an answer event with
\* duration="7" before the reasoning close and nothing after it is emitted with the
\* trailer <summary>Thought for 7 seconds</summary>.
C9_DurationTrailerEmitted ==
  (/\ FmtReturned /\ thinkMode = "details" /\ fmtCall.phaseBak = "thinking"
   /\ HasData(fmtCall.data) /\ fmtCall.data.Phase = "answer"
   /\ IsDurationClose(fmtCall.data.DeltaContent))
  => HoldsTriple(AnswerText(fmtDelta), SummaryOpen, "Thought for 7 seconds", SummaryClose)

(***************************************************************************)
(* The handlers (handlers/messages.go, handlers/chat.go): what they write  *)
(* to the client.  Ids, model names, time stamps and token counts are left *)
(* out of the written events.                                              *)
(***************************************************************************)
MessageStart == [event |-> "message_start"]
Ping == [event |-> "ping"]
TextBlockStart == [event |-> "content_block_start", index |-> 0, type |-> "text"]
ToolBlockStart(id, name) ==
  [event |-> "content_block_start", index |-> 1, type |-> "tool_use", id |-> id, name |-> name]
TextDelta(text) ==
  [event |-> "content_block_delta", index |-> 0, type |-> "text_delta", text |-> text]
InputJsonDelta(chunk) ==
  [event |-> "content_block_delta", index |-> 1, type |-> "input_json_delta",
   partial_json |-> chunk]
BlockStop(i) == [event |-> "content_block_stop", index |-> i]
MessageDelta(reason) == [event |-> "message_delta", stop_reason |-> reason]
MessageStop == [event |-> "message_stop"]
Message(content, reason) == [event |-> "message", content |-> content, stop_reason |-> reason]
TextBlock(text) == [type |-> "text", text |-> text]
ToolUseBlock(id, name, input) == [type |-> "tool_use", id |-> id, name |-> name, input |-> input]
Chunk(delta) == [event |-> "chunk", delta |-> delta, finish_reason |-> "nil"]
FinishChunk == [event |-> "chunk", delta |-> [role |-> "assistant"], finish_reason |-> "stop"]
DoneMarker == [event |-> "[DONE]"]
Completion(message) == [event |-> "chat.completion", message |-> message, finish_reason |-> "stop"]

\* toolJSON[k] of a decoded map: "nil" for a missing key (and for every key of a nil map).
Field(obj, k) == IF k \in DOMAIN obj THEN obj[k] ELSE "nil"

\* messages.go 154-160 and 302-308: toolJSON["input"] after the arguments string has
\* been decoded: the object {"a":1} when the string holds one, nil otherwise.
ToolInput(obj) ==
  IF Field(obj, "arguments") = "string:object" THEN "{\"a\":1}" ELSE "nil"

\* messages.go 186-211: the input sent in chunks of five bytes.
InputChunks(input) ==
  IF input = "nil" THEN <<>> ELSE <<InputJsonDelta("{\"a\":"), InputJsonDelta("1}")>>

\* A mutant of StreamTail: the text block is closed after the loop in every case.
StreamTailClosing(htc) ==
  <<BlockStop(0), MessageDelta(IF htc THEN "tool_use" ELSE "end_turn"), MessageStop>>

\* messages.go 241-277: what the streaming handler writes after its loop.
StreamTail(htc) ==
  (IF htc THEN <<>> ELSE <<BlockStop(0)>>)
    \o <<MessageDelta(IF htc THEN "tool_use" ELSE "end_turn"), MessageStop>>

\* messages.go 356-383: the message written when the loop ends without a tool call.
TextMessage(parts) ==
  Message(IF Join(parts) = <<>> THEN <<>> ELSE <<TextBlock(Join(parts))>>, "end_turn")

\* chat.go 211-254: the completion built from the collected parts.
FinalMessage(rparts, cparts) ==
  IF rparts # <<>> /\ cparts # <<>>
  THEN [role |-> "assistant", reasoning_content |-> Join(rparts), content |-> Join(cparts)]
  ELSE IF rparts # <<>> THEN [role |-> "assistant", reasoning_content |-> Join(rparts)]
  ELSE IF cparts # <<>> THEN [role |-> "assistant", content |-> Join(cparts)]
  ELSE [role |-> "assistant"]

\* delta[k].(string): the text under key k of a delta, if it has one.
HasKey(delta, k) == k \in DOMAIN delta
PartOf(delta, k) == IF HasKey(delta, k) THEN <<delta[k]>> ELSE <<>>

\* The handler's local variables as one record, and one pass of a loop body: the
\* locals after it, the value of phaseBak after it, and how it leaves the body
\* ("continue", "break", or "return" out of the handler).  The loop bodies take the
\* event ev, what FormatResponse returns for it (r, used only where the body calls
\* FormatResponse), the locals h and the value pb of phaseBak.
Locals ==
  [toolCallParts |-> toolCallParts, textParts |-> textParts,
   reasoningParts |-> reasoningParts, hasToolCall |-> hasToolCall, out |-> out]

Pass(ctl, h, pb) == [ctl |-> ctl, h |-> h, phaseBak |-> pb]

IsDone(ev) == HasData(ev) /\ ev.Done

\* messages.go 135-239: the loop body of the streaming Anthropic response.
AnthropicStreamBody(ev, r, h, pb) ==
  IF IsDone(ev) THEN Pass("break", h, pb)
  ELSE
    IF r.delta = Nil THEN Pass("continue", h, r.phaseBak)
    ELSE IF HasKey(r.delta, "tool_call")
    THEN LET parts == Append(h.toolCallParts, r.delta.tool_call)
             toolJSON == Unmarshal(Join(parts))
             input == ToolInput(toolJSON.obj)
         IN IF ~toolJSON.err
            THEN Pass("break",
                      [h EXCEPT !.toolCallParts = parts, !.hasToolCall = TRUE,
                                !.out = h.out \o <<BlockStop(0),
                                                    ToolBlockStart(Field(toolJSON.obj, "id"),
                                                                   Field(toolJSON.obj, "name"))>>
                                              \o InputChunks(input) \o <<BlockStop(1)>>],
                      r.phaseBak)
            ELSE Pass("continue", [h EXCEPT !.toolCallParts = parts], r.phaseBak)
    ELSE IF HasKey(r.delta, "text")
    THEN Pass("continue",
              [h EXCEPT !.textParts = Append(h.textParts, r.delta.text),
                        !.out = Append(h.out, TextDelta(r.delta.text))],
              r.phaseBak)
    ELSE Pass("continue", h, r.phaseBak)

\* messages.go 284-354: the loop body of the non-streaming Anthropic response.
AnthropicJSONBody(ev, r, h, pb) ==
  IF IsDone(ev) THEN Pass("break", h, pb)
  ELSE
    IF r.delta = Nil THEN Pass("continue", h, r.phaseBak)
    ELSE IF HasKey(r.delta, "tool_call")
    THEN LET parts == Append(h.toolCallParts, r.delta.tool_call)
             toolJSON == Unmarshal(Join(parts))
             text == IF h.textParts = <<>> THEN <<>> ELSE <<TextBlock(Join(h.textParts))>>
             tool == ToolUseBlock(Field(toolJSON.obj, "id"), Field(toolJSON.obj, "name"),
                                  ToolInput(toolJSON.obj))
         IN IF ~toolJSON.err
            THEN Pass("return",
                      [h EXCEPT !.toolCallParts = parts,
                                !.out = <<Message(text \o <<tool>>, "tool_use")>>],
                      r.phaseBak)
            ELSE Pass("continue", [h EXCEPT !.toolCallParts = parts], r.phaseBak)
    ELSE Pass("continue",
              [h EXCEPT !.textParts = h.textParts \o PartOf(r.delta, "content")
                                        \o PartOf(r.delta, "reasoning_content")],
              r.phaseBak)

\* chat.go 104-139: the loop body of the streaming OpenAI response.
OpenAIStreamBody(ev, r, h, pb) ==
  IF r.delta = Nil THEN Pass("continue", h, r.phaseBak)
  ELSE Pass("continue", [h EXCEPT !.out = Append(h.out, Chunk(r.delta))], r.phaseBak)

\* chat.go 193-209: the loop body of the non-streaming OpenAI response.
OpenAIJSONBody(ev, r, h, pb) ==
  IF IsDone(ev) THEN Pass("break", h, pb)
  ELSE
    IF r.delta = Nil THEN Pass("continue", h, r.phaseBak)
    ELSE Pass("continue",
              [h EXCEPT !.textParts = h.textParts \o PartOf(r.delta, "content"),
                        !.reasoningParts = h.reasoningParts
                                             \o PartOf(r.delta, "reasoning_content")],
              r.phaseBak)

Paths == {"AnthropicStream", "AnthropicJSON", "OpenAIStream", "OpenAIJSON"}

\* The responseType each handler passes to FormatResponse.
ResponseTypeOf(p) ==
  IF p \in {"AnthropicStream", "AnthropicJSON"} THEN "Anthropic" ELSE "OpenAI"

LoopBody(p, ev, r, h, pb) ==
  CASE p = "AnthropicStream" -> AnthropicStreamBody(ev, r, h, pb)
    [] p = "AnthropicJSON" -> AnthropicJSONBody(ev, r, h, pb)
    [] p = "OpenAIStream" -> OpenAIStreamBody(ev, r, h, pb)
    [] p = "OpenAIJSON" -> OpenAIJSONBody(ev, r, h, pb)

\* What the handler writes before its loop (messages.go 94-132) and after it.
BeforeLoop(p) ==
  IF p = "AnthropicStream" THEN <<MessageStart, TextBlockStart, Ping>> ELSE <<>>

AfterLoop(p, h) ==
  CASE p = "AnthropicStream" -> h.out \o StreamTail(h.hasToolCall)
    [] p = "AnthropicJSON" -> <<TextMessage(h.textParts)>>
    [] p = "OpenAIStream" -> h.out \o <<FinishChunk, DoneMarker>>
    [] p = "OpenAIJSON" -> <<Completion(FinalMessage(h.reasoningParts, h.textParts))>>

(***************************************************************************)
(* ParseSSEStream (services/response): the goroutine that scans the body   *)
(* line by line and offers each parsed event on the unbuffered channel.    *)
(*                                                                         *)
(* A line is its frame prefix, its payload and whether it is longer than   *)
(* bufio.MaxScanTokenSize (64 KiB), the longest line a Scanner with the    *)
(* default buffer returns.  A payload is no text at all, a text that the   *)
(* decoder rejects, or a JSON text with the event it decodes to (null and  *)
(* {} decode to an event without data).                                    *)
(***************************************************************************)
NoPayload == [kind |-> "none", ev |-> NilResponse]
Garbage == [kind |-> "garbage", ev |-> NilResponse]
EventJSON(ev) == [kind |-> "json", ev |-> ev]

Line(prefix, payload, long) == [prefix |-> prefix, payload |-> payload, long |-> long]
EmptyLine == Line("", NoPayload, FALSE)
DataLine(ev) == Line("data: ", EventJSON(ev), FALSE)

\* Lines 32-34 and 39-42: the lines the loop body skips.
Skipped(l) ==
  \/ l.prefix = "" /\ l.payload.kind = "none"
  \/ l.prefix # "data: "
  \/ l.payload.kind # "json"

\* Lines 28-45, one turn of the loop: scanner.Scan() returns the next line, which is
\* skipped or decoded and offered on ch; on a line longer than the scanner's buffer
\* Scan returns false and the goroutine ends (deferred close(ch)).  Lines the scanner
\* had buffered are still returned after the body is closed.
ScanLine ==
  /\ prodPc = "scan"
  /\ pos < Len(lines)
  /\ pos' = pos + 1
  /\ LET l == lines[pos + 1] IN
       IF l.long THEN prodPc' = "done" /\ prodItem' = prodItem
       ELSE IF Skipped(l) THEN prodPc' = "scan" /\ prodItem' = prodItem
       ELSE prodPc' = "send" /\ prodItem' = l.payload.ev
  /\ UNCHANGED <<lines, bodyClosed, delivered, phaseBak, handlerVars, streamRest>>

\* scanner.Scan() returns false at the end of the body, and on the read error of a
\* closed body; the goroutine ends and ch is closed.
ScanEnd ==
  /\ prodPc = "scan"
  /\ pos = Len(lines) \/ bodyClosed
  /\ prodPc' = "done"
  /\ UNCHANGED <<lines, pos, bodyClosed, prodItem, delivered, phaseBak, handlerVars,
                 streamRest>>

\* The handler up to its loop: the response is there (status 200), ParseSSEStream
\* starts the goroutine, the streaming Anthropic path writes its opening events.
HandlerStart ==
  /\ hPc = "start"
  /\ hPc' = "loop"
  /\ prodPc' = "scan"
  /\ out' = BeforeLoop(path)
  /\ UNCHANGED <<lines, pos, bodyClosed, prodItem, delivered, phaseBak, path, toolCallParts,
                 textParts, reasoningParts, hasToolCall, streamRest>>

\* The handler's locals become h; it goes on looping, or returns having written o
\* (the deferred resp.Body.Close() runs on return).
HandlerGoesOn(h) ==
  /\ toolCallParts' = h.toolCallParts /\ textParts' = h.textParts
  /\ reasoningParts' = h.reasoningParts /\ hasToolCall' = h.hasToolCall
  /\ out' = h.out
  /\ hPc' = "loop" /\ bodyClosed' = bodyClosed

HandlerReturns(h, o) ==
  /\ toolCallParts' = h.toolCallParts /\ textParts' = h.textParts
  /\ reasoningParts' = h.reasoningParts /\ hasToolCall' = h.hasToolCall
  /\ out' = o
  /\ hPc' = "returned" /\ bodyClosed' = TRUE

\* for zaiResp := range ch, one iteration on path p: the receive completes the
\* goroutine's send, then the loop body runs up to the next receive or to the return.
LoopIteration(p) ==
  /\ path = p /\ hPc = "loop" /\ prodPc = "send"
  /\ prodPc' = "scan"
  /\ delivered' = Append(delivered, prodItem)
  /\ \E fr \in {FormatResponse(prodItem, ResponseTypeOf(p), thinkMode, phaseBak)} :
       \E r \in {LoopBody(p, prodItem, fr, Locals, phaseBak)} :
         /\ phaseBak' = r.phaseBak
         /\ CASE r.ctl = "continue" -> HandlerGoesOn(r.h)
              [] r.ctl = "break" -> HandlerReturns(r.h, AfterLoop(p, r.h))
              [] r.ctl = "return" -> HandlerReturns(r.h, r.h.out)
  /\ UNCHANGED <<lines, pos, prodItem, path, streamRest>>

AnthropicStreamEvent == LoopIteration("AnthropicStream")
AnthropicJSONEvent == LoopIteration("AnthropicJSON")
OpenAIStreamEvent == LoopIteration("OpenAIStream")
OpenAIJSONEvent == LoopIteration("OpenAIJSON")

\* The range loop ends because ch is closed; the handler writes what follows its loop.
LoopEnd ==
  /\ hPc = "loop" /\ prodPc = "done"
  /\ HandlerReturns(Locals, AfterLoop(path, Locals))
  /\ UNCHANGED <<lines, pos, prodPc, prodItem, delivered, phaseBak, path, streamRest>>

(***************************************************************************)
(* SpecStream: one request from the upstream response to the handler's     *)
(* return, the goroutine of ParseSSEStream running beside the handler.     *)
(***************************************************************************)
MaxLines == 3

ThinkingEvent == ZaiResponse("thinking", <<TX>>, <<>>, FALSE)
AnswerEvent == ZaiResponse("answer", <<TX>>, <<>>, FALSE)
PauseEvent == ZaiResponse("answer", <<>>, <<SummaryClose, NL, DetailsClose, TX>>, FALSE)
DoneEvent == ZaiResponse("answer", <<TX>>, <<>>, TRUE)
LastEvent == ZaiResponse("other", <<>>, <<>>, TRUE)

\* Tool-call events as the upstream frames them, and bare fragments: the head of the
\* object up to its name, the arguments string with the result trailer, the "other"
\* event that closes string and object, the closing fragment, a whole object
\* without arguments, arguments that are a number or hold a list, and null.
ToolHead ==
  ZaiResponse("tool_call", <<NL, GlmOpen, GT, McpHead, MemberId, Comma, MemberName, Comma>>,
              <<>>, FALSE)
ToolArgs == ZaiResponse("tool_call", <<MemberArgsOpen, ResultEmpty, GlmClose>>, <<>>, FALSE)
ToolClose == ZaiResponse("other", <<>>, <<DisplayEmpty, RBrace, GlmClose>>, FALSE)
ToolArgsClose == ZaiResponse("tool_call", <<MemberArgsOpen, Quote, RBrace>>, <<>>, FALSE)
ToolBare == ZaiResponse("tool_call", <<LBrace, MemberId, RBrace>>, <<>>, FALSE)
ToolArgsNum == ZaiResponse("tool_call", <<MemberArgsNum, RBrace>>, <<>>, FALSE)
ToolArgsList == ZaiResponse("tool_call", <<MemberArgsList, RBrace>>, <<>>, FALSE)
ToolNull == ZaiResponse("tool_call", <<NullTok>>, <<>>, FALSE)

\* An event without a phase label that holds text and no wrapper.
UnlabelledText == ZaiResponse("", <<TX>>, <<>>, FALSE)

ToolEvents ==
  {ToolHead, ToolArgs, ToolClose, ToolArgsClose, ToolBare, ToolArgsNum, ToolArgsList, ToolNull,
   UnlabelledText}
TextEvents == {ThinkingEvent, AnswerEvent, PauseEvent, DoneEvent, LastEvent, NoData}

\* Lines of every kind the scanner can meet: empty, a comment, an event field, a
\* data field without the blank of the prefix, a payload that does not decode
\* ([DONE]), an over-long data line, and well-formed data lines.
FramingLines ==
  {EmptyLine, Line(": ping", NoPayload, FALSE), Line("event: ", Garbage, FALSE),
   Line("data:", EventJSON(AnswerEvent), FALSE), Line("data: ", Garbage, FALSE),
   Line("data: ", EventJSON(AnswerEvent), TRUE),
   DataLine(AnswerEvent), DataLine(DoneEvent), DataLine(NoData)}

\* A request on path p whose upstream response has the lines ls.
StreamStart(ls, p, mode, pb) ==
  /\ GetConfig(mode) /\ phaseBak = pb
  /\ NoFmt /\ NoRace /\ NoSig /\ NoSend /\ NoNorm
  /\ lines = ls /\ pos = 0 /\ bodyClosed = FALSE
  /\ prodPc = "idle" /\ prodItem = NilResponse /\ delivered = <<>>
  /\ path = p /\ hPc = "start"
  /\ toolCallParts = <<>> /\ textParts = <<>> /\ reasoningParts = <<>>
  /\ hasToolCall = FALSE /\ out = <<>>

\* The bodies SpecStream reads: tool-call streams, bodies of every kind of line, and
\* text streams under every think mode, each on every path.
StreamInit ==
  \/ \E ls \in SeqsUpTo({DataLine(e) : e \in ToolEvents \cup {AnswerEvent}}, MaxLines),
        p \in Paths : StreamStart(ls, p, "reasoning", "thinking")
  \/ \E ls \in SeqsUpTo(FramingLines, MaxLines), p \in Paths :
       StreamStart(ls, p, "strip", "thinking")
  \/ \E ls \in SeqsUpTo({DataLine(e) : e \in TextEvents}, MaxLines), p \in Paths,
        m \in ThinkModes, pb \in {"thinking", "answer"} : StreamStart(ls, p, m, pb)

StreamNext ==
  \/ HandlerStart
  \/ ScanLine
  \/ ScanEnd
  \/ AnthropicStreamEvent
  \/ AnthropicJSONEvent
  \/ OpenAIStreamEvent
  \/ OpenAIJSONEvent
  \/ LoopEnd

SpecStream == StreamInit /\ [][StreamNext]_vars

(***************************************************************************)
(* Claims about one stream                                                 *)
(***************************************************************************)
\* The text parses as a JSON object.
ParsesAsObject(text) == LET u == Unmarshal(text) IN ~u.err /\ ~u.isNil

\* The tool fragments received so far whose arrival made the concatenation parse.
CompletingFragments ==
  {k \in 1..Len(toolCallParts) : ParsesAsObject(Join(SubSeq(toolCallParts, 1, k)))}

\* The tool invocations written to the client: tool_use block starts of a streamed
\* response, tool_use blocks of a message.
RECURSIVE CountToolUse(_)
CountToolUse(blocks) ==
  IF blocks = <<>> THEN 0
  ELSE (IF blocks[1].type = "tool_use" THEN 1 ELSE 0) + CountToolUse(Tail(blocks))

RECURSIVE ToolInvocations(_)
ToolInvocations(o) ==
  IF o = <<>> THEN 0
  ELSE (CASE o[1].event = "content_block_start" -> IF o[1].type = "tool_use" THEN 1 ELSE 0
          [] o[1].event = "message" -> CountToolUse(o[1].content)
          [] OTHER -> 0) + ToolInvocations(Tail(o))

\* No text delta is written after a tool invocation.
NoContentAfterInvocation ==
  \A i, j \in 1..Len(out) :
    (i < j /\ out[i].event = "content_block_start" /\ out[i].type = "tool_use")
      => ~(out[j].event = "content_block_delta" /\ out[j].type = "text_delta")

\* C1: on the Anthropic paths the reconstructor writes no tool invocation while no
\* concatenation of the fragments received so far has parsed as a JSON object, and
\* once one has, it has written exactly one invocation, at the fragment that
\* completed the first such concatenation, and no content delta after it.
C1_OneInvocationAtFirstParse ==
  path \in {"AnthropicStream", "AnthropicJSON"} =>
    /\ CompletingFragments = {} => ToolInvocations(out) = 0
    /\ CompletingFragments # {} =>
         ToolInvocations(out) = 1 /\ CompletingFragments = {Len(toolCallParts)}
    /\ NoContentAfterInvocation

\* The events of the data lines that decode, in line order.
RECURSIVE EventsOf(_)
EventsOf(ls) ==
  IF ls = <<>> THEN <<>>
  ELSE (IF ls[1].prefix = "data: " /\ ls[1].payload.kind = "json"
        THEN <<ls[1].payload.ev>> ELSE <<>>) \o EventsOf(Tail(ls))

IsPrefix(s, t) == Len(s) <= Len(t) /\ s = SubSeq(t, 1, Len(s))

\* C6: the events delivered are at any time a prefix of the events of the data lines
\* that decode, and when the sequence has ended under a caller that was still
\* reading, they are all of them: no other line ends the sequence, and neither
\* does an event with done = true.
C6_DeliversEveryParsedDataLine ==
  /\ IsPrefix(delivered, EventsOf(lines))
  /\ (prodPc = "done" /\ hPc = "loop") => delivered = EventsOf(lines)

\* C7: once the handler has returned and the body is closed, the goroutine of
\* ParseSSEStream has ended or can take a step towards its end; it is not held
\* at the send of an event that nobody will receive.
C7_ProducerNotBlockedForever ==
  (hPc = "returned" /\ bodyClosed /\ prodPc # "done") => ENABLED (ScanLine \/ ScanEnd)

(***************************************************************************)
(* SpecRace: two requests handled at the same time.  Each handler calls    *)
(* FormatResponse for its own events; the calls share the package variable *)
(* phaseBak and take no lock.  A call is followed through its reads of     *)
(* phaseBak (lines 76, 110 and 113) and its write (line 185).  The write   *)
(* of the string is not atomic: a read that falls into it sees a torn      *)
(* value, which equals none of the phase names it is compared with.        *)
(***************************************************************************)
MaxStreamEvents == 2

StreamIds == {"A", "B"}
Torn == "torn"

\* The value a call of request s reads from phaseBak.
PhaseSeenOwn(s) == stream[s].own
PhaseSeen(s) == phaseBak

\* A request with the events evs, before its first call of FormatResponse; own is
\* the phase the request itself stored last.
Request(evs, rt) ==
  [events |-> evs, rt |-> rt, pc |-> "idle", pb76 |-> "", pb110 |-> "", pb113 |-> "",
   own |-> "thinking", deltas |-> <<>>]

Running(s) == stream[s].pc # "idle"
CurrentEvent(s) == stream[s].events[Len(stream[s].deltas) + 1]
Call(s) == [id |-> s, ev |-> CurrentEvent(s), rt |-> stream[s].rt]

RaceInit ==
  /\ phaseBak = "thinking"
  /\ \E env \in {"reasoning", "details"} : GetConfig(env)
  /\ \E a \in SeqsUpTo({ThinkingEvent, PauseEvent}, MaxStreamEvents),
        b \in SeqsUpTo({AnswerEvent, ToolBare, NoData}, MaxStreamEvents) :
       stream = [s \in StreamIds |->
                  IF s = "A" THEN Request(a, "Anthropic") ELSE Request(b, "OpenAI")]
  /\ log = <<>> /\ overlapped = FALSE
  /\ NoFmt /\ NoStream /\ NoRequest /\ NoSig /\ NoSend /\ NoNorm

\* Lines 52-68: the call begins; it returns nil at once for an event without content.
CallBegin(s) ==
  /\ ~Running(s)
  /\ Len(stream[s].deltas) < Len(stream[s].events)
  /\ overlapped' = (overlapped \/ \E o \in StreamIds \ {s} : Running(o))
  /\ IF NoDelta(CurrentEvent(s))
     THEN /\ stream' = [stream EXCEPT ![s].deltas = Append(@, Nil)]
          /\ log' = Append(log, Call(s))
     ELSE /\ stream' = [stream EXCEPT ![s].pc = "read76"]
          /\ log' = log
  /\ UNCHANGED <<phaseBak, raceRest>>

\* Lines 76, 110 and 113: the reads of phaseBak (a call that does not come by one
\* of these lines makes no use of the value).
Read76(s) ==
  /\ stream[s].pc = "read76"
  /\ stream' = [stream EXCEPT ![s].pb76 = PhaseSeen(s), ![s].pc = "read110"]
  /\ UNCHANGED <<phaseBak, log, overlapped, raceRest>>

Read110(s) ==
  /\ stream[s].pc = "read110"
  /\ stream' = [stream EXCEPT ![s].pb110 = PhaseSeen(s), ![s].pc = "read113"]
  /\ UNCHANGED <<phaseBak, log, overlapped, raceRest>>

Read113(s) ==
  /\ stream[s].pc = "read113"
  /\ stream' = [stream EXCEPT ![s].pb113 = PhaseSeen(s), ![s].pc = "write"]
  /\ UNCHANGED <<phaseBak, log, overlapped, raceRest>>

\* Line 185, phaseBak = phase: the store begins, and ends with the call's return.
WriteBegin(s) ==
  /\ stream[s].pc = "write"
  /\ phaseBak' = Torn
  /\ stream' = [stream EXCEPT ![s].pc = "return"]
  /\ UNCHANGED <<log, overlapped, raceRest>>

WriteEnd(s) ==
  /\ stream[s].pc = "return"
  /\ \E r \in {FormatResponseReads(CurrentEvent(s), stream[s].rt, thinkMode,
                                     stream[s].pb76, stream[s].pb110, stream[s].pb113)} :
       /\ phaseBak' = r.phaseBak
       /\ stream' = [stream EXCEPT ![s].pc = "idle", ![s].own = r.phaseBak,
                                   ![s].pb76 = "", ![s].pb110 = "", ![s].pb113 = "",
                                   ![s].deltas = Append(@, r.delta)]
  /\ log' = Append(log, Call(s))
  /\ UNCHANGED <<overlapped, raceRest>>

RaceNext ==
  \E s \in StreamIds :
    \/ CallBegin(s)
    \/ Read76(s)
    \/ Read110(s)
    \/ Read113(s)
    \/ WriteBegin(s)
    \/ WriteEnd(s)

SpecRace == RaceInit /\ [][RaceNext]_vars

(***************************************************************************)
(* Claims about concurrent streams                                         *)
(***************************************************************************)
\* The deltas of one stream processed alone: the calls are made one after the other,
\* each starting from the phase the call before it left (pb for the first).
RECURSIVE SoloDeltas(_, _, _)
RECURSIVE SoloStep(_, _, _)
SoloStep(r, rest, mode) == <<r.delta>> \o SoloDeltas(rest, mode, r.phaseBak)
SoloDeltas(calls, mode, pb) ==
  IF calls = <<>> THEN <<>>
  ELSE SoloStep(FormatResponse(calls[1].ev, calls[1].rt, mode, pb), Tail(calls), mode)

\* The deltas ds of the calls that are request s's.
RECURSIVE DeltasOf(_, _, _)
DeltasOf(s, calls, ds) ==
  IF calls = <<>> THEN <<>>
  ELSE (IF calls[1].id = s THEN <<ds[1]>> ELSE <<>>) \o DeltasOf(s, Tail(calls), Tail(ds))

\* The events of request s as calls of its own.
CallsOf(s) ==
  [k \in 1..Len(stream[s].events) |->
     [id |-> s, ev |-> stream[s].events[k], rt |-> stream[s].rt]]

\* Call k of request A has returned, its event is an answer-phase event that holds
\* the reasoning close, and its delta is not the one request A gets for it alone.
DiffersFromSolo(k) ==
  /\ k <= Len(stream["A"].deltas)
  /\ stream["A"].events[k].Phase = "answer"
  /\ ContainsAtom(EventContent(stream["A"].events[k]), {DetailsClose})
  /\ stream["A"].deltas[k] # SoloDeltas(CallsOf("A"), thinkMode, "thinking")[k]

\* C2: previousPhase is one variable of the whole process.  As long as no two calls
\* of FormatResponse overlap, every request gets the deltas its events get in the
\* single stream made of the calls of all requests in the order they were made:
\* each call starts from the phase left by the call before it, whichever request
\* made that call.
C2_PhaseSharedByAllStreams ==
  (stream # <<>> /\ ~overlapped) =>
    \A s \in StreamIds :
      stream[s].deltas = DeltasOf(s, log, SoloDeltas(log, thinkMode, "thinking"))

\* C2, the interleaving: whole events of A and B interleaved, no two calls
\* overlapping, and an answer-phase event of A whose delta differs from the delta
\* of the same event when A is processed alone.
C2_Witness ==
  /\ stream # <<>> /\ ~overlapped
  /\ \E k \in 1..MaxStreamEvents : DiffersFromSolo(k)

(***************************************************************************)
(* GenerateSignature (services/signature).  Parameter values, the content  *)
(* and the signed plaintexts are sequences of characters (keys and other   *)
(* fixed pieces are single elements).  A 64-bit integer is kept as its     *)
(* decimal numeral: a sign and the digits without leading zeros.           *)
(***************************************************************************)
Digits == {"0", "1", "2", "3", "4", "5", "6", "7", "8", "9"}
DigitChars == <<"0", "1", "2", "3", "4", "5", "6", "7", "8", "9">>
DigitVal(c) == CHOOSE v \in 0..9 : DigitChars[v + 1] = c

\* The digits without their leading zeros (one "0" for zero).
RECURSIVE StripZeros(_)
StripZeros(ds) ==
  IF Len(ds) > 1 /\ ds[1] = "0" THEN StripZeros(Tail(ds)) ELSE ds

\* a <= b for two digit sequences of the same length.
RECURSIVE LexLeq(_, _)
LexLeq(a, b) ==
  IF a = <<>> THEN TRUE
  ELSE IF a[1] # b[1] THEN DigitVal(a[1]) < DigitVal(b[1])
  ELSE LexLeq(Tail(a), Tail(b))

\* a <= b for two digit sequences without leading zeros.
MagLeq(a, b) == Len(a) < Len(b) \/ (Len(a) = Len(b) /\ LexLeq(a, b))

\* 1<<63 - 1 and 1<<63, the largest magnitudes of an int64.
MaxInt64 ==
  <<"9", "2", "2", "3", "3", "7", "2", "0", "3", "6", "8", "5", "4", "7", "7", "5", "8", "0", "7">>
MinInt64Mag ==
  <<"9", "2", "2", "3", "3", "7", "2", "0", "3", "6", "8", "5", "4", "7", "7", "5", "8", "0", "8">>

Numeral(neg, mag) == [neg |-> neg /\ mag # <<"0">>, digits |-> mag]

\* strconv.ParseInt(s, 10, 64): a syntax error for an empty text, a lone sign or a
\* character that is no digit; a range error for a value outside int64.
ParseUnsigned(neg, ds) ==
  IF ds = <<>> \/ \E j \in 1..Len(ds) : ds[j] \notin Digits
  THEN [err |-> "syntax"]
  ELSE IF ~MagLeq(StripZeros(ds), IF neg THEN MinInt64Mag ELSE MaxInt64)
  THEN [err |-> "range"]
  ELSE [err |-> "", value |-> Numeral(neg, StripZeros(ds))]

ParseInt(s) ==
  IF s = <<>> THEN [err |-> "syntax"]
  ELSE IF s[1] \in {"+", "-"} THEN ParseUnsigned(s[1] = "-", Tail(s))
  ELSE ParseUnsigned(FALSE, s)

\* The digits of the quotient of the digits ds[j..] by d, the remainder so far being r.
RECURSIVE LongDiv(_, _, _, _)
LongDiv(ds, j, r, d) ==
  IF j > Len(ds) THEN <<>>
  ELSE <<DigitChars[((r * 10 + DigitVal(ds[j])) \div d) + 1]>>
         \o LongDiv(ds, j + 1, (r * 10 + DigitVal(ds[j])) % d, d)

\* n / d of Go for d > 0: the quotient truncated toward zero.
Quo(n, d) == Numeral(n.neg, StripZeros(LongDiv(n.digits, 1, 0, d)))

\* strconv.FormatInt(n, 10), and %d.
FormatInt(n) == (IF n.neg THEN <<"-">> ELSE <<>>) \o n.digits

\* hmacSHA256(key, message): the hex digest, kept as the pair it is computed from.
secretKey == <<"key-@@@@)))()((9))-xxxx&&&%%%%%">>
hmacSHA256(key, message) == <<"hmac", key, message>>

\* A mutant of Base64: an encoding that keeps the length only.
Base64Blind(content) == [j \in 1..Len(content) |-> "b64"]

\* base64.StdEncoding.EncodeToString: character by character into the base64
\* alphabet, which has neither ',' nor '|'.
Base64(content) == [j \in 1..Len(content) |-> "b64:" \o content[j]]

\* Lines 25-26 and 31-32: the parameters that must be there, and the five-minute
\* window in milliseconds.
RequiredNoUser == {"timestamp", "requestId"}
Required == {"timestamp", "requestId", "user_id"}
WindowMillis == 300000

\* The keys the model uses, in the order of Go's string comparison.
KeyOrder == <<"a", "requestId", "timestamp", "user_id">>
Rank(k) == CHOOSE j \in 1..Len(KeyOrder) : KeyOrder[j] = k

\* Lines 50-53: the orders in which "for k := range params" may yield the keys; Go
\* leaves the iteration order of a map unspecified.
RangeOrders(keySet) ==
  {ks \in [1..Cardinality(keySet) -> keySet] :
     \A i, j \in 1..Cardinality(keySet) : ks[i] = ks[j] => i = j}

\* A mutant of SortStrings: the keys stay in the order of the iteration.
SortStringsNot(keys) == keys

\* Line 54: sort.Strings(keys).
RECURSIVE InsertKey(_, _)
InsertKey(k, sorted) ==
  IF sorted = <<>> THEN <<k>>
  ELSE IF Rank(k) <= Rank(sorted[1]) THEN <<k>> \o sorted
  ELSE <<sorted[1]>> \o InsertKey(k, Tail(sorted))

RECURSIVE SortKeys(_)
SortKeys(keys) ==
  IF keys = <<>> THEN <<>> ELSE InsertKey(keys[1], SortKeys(Tail(keys)))

SortStrings(keys) == SortKeys(keys)

\* Lines 57-65: "k,v,k,v,..." for the keys from the j-th on.
RECURSIVE ParamsStr(_, _, _)
ParamsStr(params, keys, j) ==
  IF j > Len(keys) THEN <<>>
  ELSE (IF j > 1 THEN <<",">> ELSE <<>>) \o <<keys[j], ",">> \o params[keys[j]]
         \o ParamsStr(params, keys, j + 1)

\* Lines 38-74, with the parsed timestamp requestTime and the keys as sorted.
Signed(params, content, requestTime, keys) ==
  [err |-> "",
   Signature |-> hmacSHA256(hmacSHA256(secretKey, FormatInt(Quo(requestTime, WindowMillis))),
                            ParamsStr(params, keys, 1) \o <<"|">> \o Base64(content)
                              \o <<"|">> \o FormatInt(requestTime)),
   Timestamp |-> requestTime]

\* Lines 32-36, with what ParseInt returned.
SignParsed(params, content, t, keys) ==
  IF t.err # "" THEN [err |-> "invalid timestamp"]
  ELSE Signed(params, content, t.value, SortStrings(keys))

\* GenerateSignature(params, content), the iteration over params yielding the keys in
\* the order ranged.
GenerateSignature(params, content, ranged) ==
  IF \E k \in Required : k \notin DOMAIN params
  THEN [err |-> "missing required parameter"]
  ELSE SignParsed(params, content, ParseInt(params["timestamp"]), ranged)

(***************************************************************************)
(* SpecSig: single calls of GenerateSignature.                             *)
(***************************************************************************)
MaxTimestampLen == 3

TimestampChars == {"0", "1", "9", "-", "+", "x"}

\* Timestamp texts: every short text, and the numerals at both ends of int64.
TimestampTexts ==
  SeqsUpTo(TimestampChars, MaxTimestampLen)
    \cup {MaxInt64, MinInt64Mag, <<"-">> \o MaxInt64, <<"-">> \o MinInt64Mag,
          <<"+", "0">> \o MaxInt64, <<"-">> \o MaxInt64 \o <<"0">>,
          <<"1", "7", "0", "0", "0", "0", "0", "0", "0", "0", "0", "0", "0">>}

SigKeys == {"a", "requestId", "timestamp", "user_id"}

\* One call GenerateSignature(params, content).
SigStart(params, content) ==
  /\ sigCall = [pc |-> "called", params |-> params, content |-> content]
  /\ sigResult = Nil
  /\ sigLog = <<>>
  /\ GetConfig("reasoning") /\ phaseBak = "thinking"
  /\ NoFmt /\ NoStream /\ NoRequest /\ NoRace /\ NoSend /\ NoNorm

\* The calls SpecSig makes: every subset of the keys, every timestamp text, an empty
\* and a non-empty user id, with and without content.
SigInit ==
  \E ks \in SUBSET SigKeys, ts \in TimestampTexts, u \in {<<>>, <<"u">>},
     c \in {<<>>, <<"h", "i">>} :
    SigStart([k \in ks |-> CASE k = "timestamp" -> ts
                              [] k = "user_id" -> u
                              [] k = "requestId" -> <<"r">>
                              [] OTHER -> <<"z">>], c)

GenerateSignatureCall ==
  /\ sigCall.pc = "called"
  /\ \E ranged \in RangeOrders(DOMAIN sigCall.params) :
       sigResult' = GenerateSignature(sigCall.params, sigCall.content, ranged)
  /\ sigCall' = [sigCall EXCEPT !.pc = "returned"]
  /\ UNCHANGED <<sigLog, sigRest>>

SigNext == GenerateSignatureCall

SpecSig == SigInit /\ [][SigNext]_vars

(***************************************************************************)
(* Claims about single calls of GenerateSignature                          *)
(***************************************************************************)
SigReturned == sigCall.pc = "returned"

\* The text without its sign.
Unsigned(s) == IF s # <<>> /\ s[1] \in {"+", "-"} THEN Tail(s) ELSE s

\* The text is a decimal numeral of a 64-bit integer: an optional sign, then digits
\* only, at least one, of a value from -2^63 to 2^63 - 1.
IsInt64Text(s) ==
  /\ Unsigned(s) # <<>>
  /\ \A j \in 1..Len(Unsigned(s)) : Unsigned(s)[j] \in Digits
  /\ \/ Len(StripZeros(Unsigned(s))) < 19
     \/ /\ Len(StripZeros(Unsigned(s))) = 19
        /\ LexLeq(StripZeros(Unsigned(s)), IF s[1] = "-" THEN MinInt64Mag ELSE MaxInt64)

\* The integer the text denotes, printed in decimal.
IntegerText(s) ==
  (IF s[1] = "-" /\ StripZeros(Unsigned(s)) # <<"0">> THEN <<"-">> ELSE <<>>)
    \o StripZeros(Unsigned(s))

SigParamAbsent == \E k \in {"timestamp", "requestId", "user_id"} : k \notin DOMAIN sigCall.params

\* C5: GenerateSignature returns an error, and nothing else, exactly when one of
\* timestamp, requestId, user_id is absent or the timestamp is not the numeral of
\* an integer; otherwise it returns a signature and the timestamp's integer.
C5_ErrorIffAbsentOrNotInteger ==
  SigReturned =>
    /\ (sigResult.err # "") <=> (SigParamAbsent \/ ~IsInt64Text(sigCall.params["timestamp"]))
    /\ sigResult.err # "" => DOMAIN sigResult = {"err"}
    /\ sigResult.err = "" =>
         /\ sigResult.Signature[1] = "hmac"
         /\ FormatInt(sigResult.Timestamp) = IntegerText(sigCall.params["timestamp"])

\* C5, its cases: a call with all three parameters whose timestamp is out of the
\* range of int64 has returned the error.
C5_Witness ==
  /\ SigReturned /\ ~SigParamAbsent
  /\ Len(sigCall.params["timestamp"]) > 18
  /\ sigResult.err = "invalid timestamp"

\* The remainder of the digits ds[j..] by d, the remainder so far being r.
RECURSIVE LongRem(_, _, _, _)
LongRem(ds, j, r, d) ==
  IF j > Len(ds) THEN r ELSE LongRem(ds, j + 1, (r * 10 + DigitVal(ds[j])) % d, d)

\* The digits of the magnitude plus one.
RECURSIVE PlusOne(_)
PlusOne(ds) ==
  IF ds = <<>> THEN <<"1">>
  ELSE IF ds[Len(ds)] # "9"
  THEN SubSeq(ds, 1, Len(ds) - 1) \o <<DigitChars[DigitVal(ds[Len(ds)]) + 2]>>
  ELSE PlusOne(SubSeq(ds, 1, Len(ds) - 1)) \o <<"0">>

\* floor(n / d) for d > 0: the largest integer not above the quotient.
FloorQuo(n, d) ==
  IF n.neg /\ LongRem(n.digits, 1, 0, d) # 0
  THEN [neg |-> TRUE, digits |-> PlusOne(StripZeros(LongDiv(n.digits, 1, 0, d)))]
  ELSE Numeral(n.neg, StripZeros(LongDiv(n.digits, 1, 0, d)))

\* The message of the level-1 HMAC of a signature.
LevelOneInput(signature) == signature[2][3]

\* C13: the level-1 input of every signature is floor(timestamp / 300000), printed
\* in decimal, for every 64-bit timestamp, the negative ones included.
C13_LevelOneIsFloorWindow ==
  (SigReturned /\ sigResult.err = "") =>
    LevelOneInput(sigResult.Signature)
      = FormatInt(FloorQuo(sigResult.Timestamp, WindowMillis))

(***************************************************************************)
(* SpecSigLog: calls of GenerateSignature one after the other, each with   *)
(* its own iteration order over the parameters.                            *)
(***************************************************************************)
MaxSigCalls == 3

\* The arguments of the calls: the three parameters with two values each, two
\* contents, a fourth parameter, and a call without user_id.
SigParamsOf(ts, rid, uid) ==
  [k \in {"requestId", "timestamp", "user_id"} |->
     CASE k = "timestamp" -> ts [] k = "requestId" -> rid [] k = "user_id" -> uid]

SigArgs ==
  {[params |-> SigParamsOf(ts, rid, uid), content |-> c] :
     ts \in {<<"1">>, <<"+", "1">>}, rid \in {<<"r">>, <<"r", ",", "|">>},
     uid \in {<<"u">>, <<",">>}, c \in {<<"h">>, <<"|">>}}
    \cup {[params |-> [k \in {"requestId", "timestamp"} |-> <<"1">>], content |-> <<"h">>],
          [params |-> [k \in {"a", "requestId", "timestamp", "user_id"} |-> <<"1">>],
           content |-> <<"h">>]}

SigLogInit ==
  /\ sigCall = NoCall /\ sigResult = Nil /\ sigLog = <<>>
  /\ GetConfig("reasoning") /\ phaseBak = "thinking"
  /\ NoFmt /\ NoStream /\ NoRequest /\ NoRace /\ NoSend /\ NoNorm

\* One more call of GenerateSignature(params, content).
GenerateSignatureNext ==
  /\ Len(sigLog) < MaxSigCalls
  /\ \E args \in SigArgs :
       \E ranged \in RangeOrders(DOMAIN args.params) :
         \E r \in {GenerateSignature(args.params, args.content, ranged)} :
           /\ sigCall' = [pc |-> "returned", params |-> args.params,
                          content |-> args.content]
           /\ sigResult' = r
           /\ sigLog' = Append(sigLog, [params |-> args.params, content |-> args.content,
                                        result |-> r])
  /\ UNCHANGED sigRest

SigLogNext == GenerateSignatureNext

SpecSigLog == SigLogInit /\ [][SigLogNext]_vars

(***************************************************************************)
(* Claims about calls of GenerateSignature one after the other             *)
(***************************************************************************)
SameArgs(a, b) == a.params = b.params /\ a.content = b.content

\* C12: two calls of GenerateSignature with identical parameters and content return
\* the same result (the same signature and timestamp, or the same error), whatever
\* calls were made in between.
C12_SameArgumentsSameResult ==
  \A i, j \in 1..Len(sigLog) :
    SameArgs(sigLog[i], sigLog[j]) => sigLog[i].result = sigLog[j].result

\* C12 witness: two calls with the same arguments have returned the same signature,
\* with a call with other arguments in between.
C12_Witness ==
  /\ Len(sigLog) = 3
  /\ SameArgs(sigLog[1], sigLog[3]) /\ ~SameArgs(sigLog[1], sigLog[2])
  /\ sigLog[1].result.err = "" /\ sigLog[2].result.err = ""
  /\ sigLog[1].result.Signature = sigLog[3].result.Signature
  /\ sigLog[1].result.Timestamp = sigLog[3].result.Timestamp

\* The message of the level-2 HMAC of a signature.
LevelTwoPlaintext(signature) == signature[3]

\* Two calls that differ in the content alone, and in the value of one of the three
\* parameters alone.
OnlyContentDiffers(a, b) == a.params = b.params /\ a.content # b.content

OnlyOneParamDiffers(a, b) ==
  /\ a.content = b.content
  /\ DOMAIN a.params = DOMAIN b.params
  /\ \E k \in {"timestamp", "requestId", "user_id"} \cap DOMAIN a.params :
       /\ a.params[k] # b.params[k]
       /\ \A o \in DOMAIN a.params \ {k} : a.params[o] = b.params[o]

\* C14: two signed calls that differ in the content alone, or in the value of one of
\* timestamp, requestId, user_id alone, have different level-2 plaintexts and
\* different signatures (the HMAC being injective in its message).
C14_OneChangeChangesSignature ==
  \A i, j \in 1..Len(sigLog) :
    (/\ sigLog[i].result.err = "" /\ sigLog[j].result.err = ""
     /\ OnlyContentDiffers(sigLog[i], sigLog[j]) \/ OnlyOneParamDiffers(sigLog[i], sigLog[j]))
      => /\ LevelTwoPlaintext(sigLog[i].result.Signature)
              # LevelTwoPlaintext(sigLog[j].result.Signature)
         /\ sigLog[i].result.Signature # sigLog[j].result.Signature

\* C14 witness: three signed calls, the second with another content than the first,
\* the third with another text of the same timestamp than the first, all with
\* different signatures.
C14_Witness ==
  /\ Len(sigLog) = 3
  /\ \A i \in 1..3 : sigLog[i].result.err = ""
  /\ OnlyContentDiffers(sigLog[1], sigLog[2])
  /\ OnlyOneParamDiffers(sigLog[1], sigLog[3])
  /\ sigLog[1].params["timestamp"] # sigLog[3].params["timestamp"]
  /\ sigLog[1].result.Timestamp = sigLog[3].result.Timestamp
  /\ sigLog[1].result.Signature # sigLog[2].result.Signature
  /\ sigLog[1].result.Signature # sigLog[3].result.Signature

(***************************************************************************)
(* UserService.GetUser (services/user) and SendChatRequest                 *)
(* (services/request).  Tokens, ids and names are single pieces of text.   *)
(***************************************************************************)
TTLMinutes == 30

\* What the upstream answers to GET /api/v1/auths/: no connection, a status other
\* than 200, a body that is no JSON, or a JSON body; id, name and token are what
\* getStringFromMap finds in it ("" for a missing key and for a value that is no
\* string).
AuthFailure == [kind |-> "fail"]
AuthStatus == [kind |-> "status"]
AuthUndecodable == [kind |-> "undecodable"]
AuthJSON(id, name, tok) == [kind |-> "json", id |-> id, name |-> name, token |-> tok]

UserInfo(id, name, tok) == [ID |-> id, Name |-> name, Token |-> tok]

\* user.go 54-69: the cached user, if the token has one younger than 30 minutes.
CacheHit(tok, cch, t) ==
  tok # "" /\ tok \in DOMAIN cch /\ t - cch[tok].CachedAt < TTLMinutes

\* user.go 71-87: the request for the user.
AuthRequest(tok) ==
  [to |-> "auths", Authorization |-> IF tok # "" THEN tok ELSE "none"]

\* user.go 125-136: the cache after a fetch at time t.
Cached(cch, userToken, id, name, t) ==
  IF userToken # "" /\ id # ""
  THEN [k \in DOMAIN cch \cup {userToken} |->
          IF k = userToken THEN [ID |-> id, Name |-> name, CachedAt |-> t] ELSE cch[k]]
  ELSE cch

\* user.go 105-138, with the token the user gets: the configured one, or in
\* anonymous mode the one the upstream handed out.
Fetched(cch, userToken, reply, t) ==
  [err |-> "", user |-> UserInfo(reply.id, reply.name, userToken),
   cache |-> Cached(cch, userToken, reply.id, reply.name, t)]

\* GetUser() with the configured token tok, the cache cch, at time t, the upstream
\* answering reply if it is asked: the error or the user, the cache afterwards,
\* and the requests made.
GetUser(tok, cch, t, reply) ==
  IF CacheHit(tok, cch, t)
  THEN [err |-> "", user |-> UserInfo(cch[tok].ID, cch[tok].Name, tok), cache |-> cch,
        requests |-> <<>>]
  ELSE IF reply.kind # "json"
  THEN [err |-> reply.kind, cache |-> cch, requests |-> <<AuthRequest(tok)>>]
  ELSE [requests |-> <<AuthRequest(tok)>>]
         @@ Fetched(cch, IF tok = "" THEN reply.token ELSE tok, reply, t)

\* The content of a message: a string, a list of blocks, or neither.
StringContent(text) == [kind |-> "string", text |-> text]
BlockContent(blocks) == [kind |-> "blocks", blocks |-> blocks]
NoContent == [kind |-> "none"]
Msg(role, content) == [role |-> role, content |-> content]

\* request.go 364-375: the text of the first text block, "" when there is none.
RECURSIVE FirstText(_)
FirstText(blocks) ==
  IF blocks = <<>> THEN <<>>
  ELSE IF blocks[1].type = "text" /\ "text" \in DOMAIN blocks[1] THEN blocks[1].text
  ELSE FirstText(Tail(blocks))

\* request.go 358-379: lastUserMessage after the messages from j on.
RECURSIVE LastUserMessage(_, _, _)
LastUserMessage(msgs, j, last) ==
  IF j > Len(msgs) THEN last
  ELSE LastUserMessage(msgs, j + 1,
         IF msgs[j].role # "user" THEN last
         ELSE IF msgs[j].content.kind = "string" THEN msgs[j].content.text
         ELSE IF msgs[j].content.kind = "blocks" THEN FirstText(msgs[j].content.blocks)
         ELSE last)

\* The decimal numeral of a natural number.
RECURSIVE NatDigits(_)
NatDigits(n) ==
  IF n < 10 THEN <<DigitChars[n + 1]>> ELSE NatDigits(n \div 10) \o <<DigitChars[(n % 10) + 1]>>

\* time.Now().UnixMilli() at minute t, printed with %d; utils.GenerateID().
UnixMilli(t) == NatDigits(t * 60000)
RequestID == <<"r">>

\* request.go 338-351 and 397-422: the chat request without a signature.
PlainRequest(user, t) ==
  [to |-> "chat", Authorization |-> user.Token, timestamp |-> UnixMilli(t),
   requestId |-> RequestID]

\* request.go 383-394: the parameters that are signed, and the request with the
\* signature sig over the prompt.
SigParams(user, t) ==
  [k \in {"requestId", "timestamp", "user_id"} |->
     CASE k = "requestId" -> RequestID
       [] k = "timestamp" -> UnixMilli(t)
       [] k = "user_id" -> <<user.ID>>]

SignedRequest(user, t, prompt, sig) ==
  IF sig.err # "" THEN [err |-> "failed to generate signature"]
  ELSE [err |-> "",
        req |-> PlainRequest(user, t)
                  @@ [user_id |-> user.ID, XSignature |-> sig.Signature,
                      signature_timestamp |-> FormatInt(sig.Timestamp),
                      signature_prompt |-> prompt]]

\* request.go 353-395: the request built for the user; signed only for a user id.
ChatRequestFor(user, t, prompt, ranged) ==
  IF user.ID # ""
  THEN SignedRequest(user, t, prompt, GenerateSignature(SigParams(user, t), prompt, ranged))
  ELSE [err |-> "", req |-> PlainRequest(user, t)]

\* SendChatRequest(data, chatID) with what GetUser returned (u), at time t, the
\* upstream answering the chat request with outcome chat: the requests handed to the
\* HTTP client and what the caller gets back.
ChatSent(u, built, chat) ==
  IF built.err # "" THEN [requests |-> u.requests, result |-> [err |-> built.err]]
  ELSE [requests |-> u.requests \o <<built.req>>,
        result |-> IF chat.kind = "fail" THEN [err |-> "failed to send request"]
                   ELSE [err |-> "", StatusCode |-> chat.code]]

SendChatRequest(u, t, msgs, chat, ranged) ==
  IF u.err # ""
  THEN [requests |-> u.requests, result |-> [err |-> "failed to get user info"]]
  ELSE ChatSent(u, ChatRequestFor(u.user, t, LastUserMessage(msgs, 1, <<>>), ranged), chat)

(***************************************************************************)
(* SpecSend: calls of SendChatRequest, one after the other, against an     *)
(* upstream that answers as it likes, while time passes.                   *)
(***************************************************************************)
MaxUpstream == 4
MaxClock == 40

Tokens == {"", "tok"}

\* The answers to the request for the user: failures, and JSON bodies with and
\* without a string id and a string token.
AuthReplies ==
  {AuthFailure, AuthStatus, AuthUndecodable}
    \cup {AuthJSON(id, "n", tok) : id \in {"", "u1"}, tok \in {"", "anon"}}

\* What client.Do gives for the chat request: no connection, or a response.
ChatFailure == [kind |-> "fail"]
ChatStatus(code) == [kind |-> "response", code |-> code]
ChatOutcomes == {ChatFailure, ChatStatus(200), ChatStatus(500)}

TextBlockOf(text) == [type |-> "text", text |-> text]
ImageBlock == [type |-> "image_url"]

MessageLists ==
  {<<>>,
   <<Msg("user", StringContent(<<"h", "i">>))>>,
   <<Msg("user", StringContent(<<"h", "i">>)), Msg("assistant", StringContent(<<"y">>)),
     Msg("user", BlockContent(<<ImageBlock, TextBlockOf(<<"a">>), TextBlockOf(<<"b">>)>>))>>,
   <<Msg("user", StringContent(<<"h", "i">>)), Msg("user", BlockContent(<<ImageBlock>>)),
     Msg("user", NoContent)>>}

SendInit ==
  \E tok \in Tokens :
    /\ token = tok /\ cache = <<>> /\ now = 0 /\ upstream = <<>> /\ sendResult = Nil
    /\ modelCache = Nil /\ mapping = <<>> /\ modelCalls = <<>>
    /\ GetConfig("reasoning") /\ phaseBak = "thinking"
    /\ NoFmt /\ NoStream /\ NoRequest /\ NoRace /\ NoSig /\ NoNorm

SendChatRequestCall ==
  /\ Len(upstream) + 2 <= MaxUpstream
  /\ \E reply \in AuthReplies, msgs \in MessageLists, chat \in ChatOutcomes :
       \E u \in {GetUser(token, cache, now, reply)} :
         \E ranged \in RangeOrders({"requestId", "timestamp", "user_id"}) :
         \E r \in {SendChatRequest(u, now, msgs, chat, ranged)} :
           /\ cache' = u.cache
           /\ upstream' = upstream \o r.requests
           /\ sendResult' = r.result
  /\ UNCHANGED <<token, now, modelCache, mapping, modelCalls, sendRest>>

\* Time passes.
Tick ==
  /\ \E d \in {10, 20} : now + d <= MaxClock /\ now' = now + d
  /\ UNCHANGED <<token, cache, upstream, sendResult, modelCache, mapping, modelCalls, sendRest>>

SendNext == SendChatRequestCall \/ Tick

SpecSend == SendInit /\ [][SendNext]_vars

(***************************************************************************)
(* Claims about SendChatRequest                                            *)
(***************************************************************************)
ChatRequests == {j \in 1..Len(upstream) : upstream[j].to = "chat"}

\* The X-Signature header of the request is the signature GenerateSignature
\* computes for the request's parameters and prompt.
CarriesSignature(req) ==
  /\ "XSignature" \in DOMAIN req
  /\ \E ranged \in RangeOrders({"requestId", "timestamp", "user_id"}) :
       req.XSignature
         = GenerateSignature([k \in {"requestId", "timestamp", "user_id"} |->
                                CASE k = "requestId" -> req.requestId
                                  [] k = "timestamp" -> req.timestamp
                                  [] k = "user_id" -> <<req.user_id>>],
                             req.signature_prompt, ranged).Signature

\* C4: with a token configured (not anonymous), every chat request sent upstream
\* carries an X-Signature header computed by GenerateSignature.
C4_AuthenticatedRequestsAreSigned ==
  token # "" => \A j \in ChatRequests : CarriesSignature(upstream[j])

(***************************************************************************)
(* FormatRequest (services/request, lines 39-252: the message list) and    *)
(* ExtractTextFromMessages.  A JSON list ([]interface{}) is content of     *)
(* kind "blocks"; the list FormatRequest builds ([]map[string]interface{}) *)
(* is of kind "maps", a different type to every type assertion.  A block   *)
(* is a record with its type ("other" for what is no object or of no known *)
(* type) and the keys it has.  The model catalogue and the features (lines *)
(* 254-318) do not touch the messages.                                     *)
(***************************************************************************)
MapsContent(blocks) == [kind |-> "maps", blocks |-> blocks]
NotAnObject == [other |-> TRUE]
IsObject(m) == "content" \in DOMAIN m

\* The system field: absent, a string, a list, or something else.
NoSystem == [kind |-> "absent"]

\* strings.Join(items, sep)
RECURSIVE JoinWith(_, _)
JoinWith(items, sep) ==
  IF items = <<>> THEN <<>>
  ELSE IF Len(items) = 1 THEN items[1]
  ELSE items[1] \o sep \o JoinWith(Tail(items), sep)

\* A mutant of SystemItems: the texts as they are.
RECURSIVE SystemItemsUntrimmed(_)
SystemItemsUntrimmed(blocks) ==
  IF blocks = <<>> THEN <<>>
  ELSE (IF blocks[1].type = "text" /\ "text" \in DOMAIN blocks[1]
        THEN <<blocks[1].text>> ELSE <<>>) \o SystemItemsUntrimmed(Tail(blocks))

\* Lines 49-58: the text of the text blocks, leading newlines stripped.
RECURSIVE SystemItems(_)
SystemItems(blocks) ==
  IF blocks = <<>> THEN <<>>
  ELSE (IF blocks[1].type = "text" /\ "text" \in DOMAIN blocks[1]
        THEN <<TrimLeftNL(blocks[1].text)>> ELSE <<>>) \o SystemItems(Tail(blocks))

\* Lines 44-60: the content of the system message.
SystemContent(system) ==
  CASE system.kind = "string" -> TrimLeftNL(system.text)
    [] system.kind = "blocks" -> JoinWith(SystemItems(system.blocks), <<NL, NL>>)
    [] OTHER -> <<>>

\* Lines 43-68: the messages the system field gives.
SystemMessages(system) ==
  IF system.kind = "absent" \/ SystemContent(system) = <<>> THEN <<>>
  ELSE <<Msg("system", StringContent(SystemContent(system)))>>

\* A mutant of StringMessage: the string loses its leading newlines.
StringMessageTrimmed(role, text) == <<Msg(role, StringContent(TrimLeftNL(text)))>>

\* Lines 83-87: a message with string content is taken as it is.
StringMessage(role, text) == <<Msg(role, StringContent(text))>>

\* Lines 134-148 and 173-185: newContent with one more block.
AppendBlock(newContent, block) ==
  IF newContent.kind = "string"
  THEN MapsContent(<<TextBlockOf(newContent.text), block>>)
  ELSE MapsContent(newContent.blocks \o <<block>>)

ImageErrorText == <<"system: image error - Unsupported format or missing URL">>

\* What UploadImage(mediaURL, chatID) returned for an image: no file and no error
\* (nothing is uploaded in anonymous mode, nor for a URL that is no data: URL), the
\* uploaded file, or an error.
NoUpload == [url |-> "", err |-> ""]
Uploaded == [url |-> "file", err |-> ""]
UploadFailed == [url |-> "", err |-> "upload failed"]

\* An image block with its media URL ("" when it has none) and what UploadImage
\* returns for it.
ImageItem(type, url, upload) == [type |-> type, url |-> url, upload |-> upload]

\* Lines 110-186: an image block.
ImageStep(st, item) ==
  [st EXCEPT !.newContent =
     AppendBlock(@, IF item.url = "" THEN TextBlockOf(ImageErrorText)
                    ELSE IF item.upload.err # ""
                    THEN TextBlockOf(<<"system: image upload error - ", item.upload.err>>)
                    ELSE [type |-> "image_url",
                          url |-> IF item.upload.url # "" THEN item.upload.url
                                  ELSE item.url])]

\* Lines 188-212: a tool_use block of an assistant message.
ToolUseStep(st, item) ==
  [st EXCEPT !.toolCalls =
               Append(@, [id |-> item.id, name |-> item.name,
                          arguments |-> IF "input" \in DOMAIN item THEN item.input
                                        ELSE <<LBrace, RBrace>>]),
             !.dontAppend = TRUE]

\* A mutant of ResultParts: the first part alone.
ResultPartsFirst(parts) ==
  IF parts # <<>> /\ parts[1].type = "text" /\ "text" \in DOMAIN parts[1] THEN parts[1].text
  ELSE <<>>

\* Lines 219-232: the non-empty text parts of a tool result.
RECURSIVE ResultParts(_)
ResultParts(parts) ==
  IF parts = <<>> THEN <<>>
  ELSE (IF parts[1].type = "text" /\ "text" \in DOMAIN parts[1] /\ parts[1].text # <<>>
        THEN parts[1].text ELSE <<>>) \o ResultParts(Tail(parts))

\* Lines 214-243: a tool_result block.
ToolResultStep(st, item) ==
  [st EXCEPT !.out =
               Append(@, [role |-> "tool", tool_call_id |-> item.tool_use_id,
                          content |->
                            StringContent(
                              CASE item.content.kind = "blocks" ->
                                     ResultParts(item.content.blocks)
                                [] item.content.kind = "string" -> item.content.text
                                [] OTHER -> <<>>)]),
             !.dontAppend = TRUE]

\* Lines 94-244: one block of a message with the role.
BlockStep(st, item, role) ==
  CASE item.type = "text" ->
         IF "text" \in DOMAIN item THEN [st EXCEPT !.newContent = StringContent(item.text)]
         ELSE st
    [] item.type \in {"image_url", "image"} -> ImageStep(st, item)
    [] item.type = "tool_use" /\ role = "assistant" -> ToolUseStep(st, item)
    [] item.type = "tool_result" -> ToolResultStep(st, item)
    [] OTHER -> st

RECURSIVE BlockLoop(_, _, _, _)
BlockLoop(st, blocks, j, role) ==
  IF j > Len(blocks) THEN st
  ELSE BlockLoop(BlockStep(st, blocks[j], role), blocks, j + 1, role)

\* Lines 90-250: what a message with a list as content adds to newMessages.
Flattened(role, st) ==
  st.out \o (IF st.dontAppend THEN <<>>
             ELSE IF st.toolCalls = <<>> THEN <<Msg(role, st.newContent)>>
             ELSE <<[role |-> role, content |-> st.newContent, tool_calls |-> st.toolCalls]>>)

BlockMessage(role, blocks) ==
  Flattened(role, BlockLoop([newContent |-> StringContent(<<>>), toolCalls |-> <<>>,
                             dontAppend |-> FALSE, out |-> <<>>], blocks, 1, role))

\* Lines 72-251: what one element of messages adds to newMessages.
ConvertMessage(m) ==
  IF ~IsObject(m) THEN <<>>
  ELSE CASE m.content.kind = "string" -> StringMessage(m.role, m.content.text)
         [] m.content.kind = "blocks" -> BlockMessage(m.role, m.content.blocks)
         [] OTHER -> <<>>

RECURSIVE ConvertMessages(_, _)
ConvertMessages(items, j) ==
  IF j > Len(items) THEN <<>>
  ELSE ConvertMessage(items[j]) \o ConvertMessages(items, j + 1)

\* result["messages"] of FormatRequest(data, requestType).
FormatRequest(data) ==
  SystemMessages(data.system)
    \o (IF data.messages.kind = "blocks" THEN ConvertMessages(data.messages.blocks, 1)
        ELSE <<>>)

\* Lines 23-28, 67 and 269: the map FormatRequest returns, as far as the messages
\* go: the system field is gone and the messages are the list it built.
ResultMap(msgs) == [system |-> NoSystem, messages |-> MapsContent(msgs)]

\* Line 320: the error FormatRequest returns ("" for nil).
FormatRequestError(data) == ""

\* part_004 243-251: the texts of the text blocks of a list.
RECURSIVE BlockTexts(_)
BlockTexts(blocks) ==
  IF blocks = <<>> THEN <<>>
  ELSE (IF blocks[1].type = "text" /\ "text" \in DOMAIN blocks[1] THEN blocks[1].text
        ELSE <<>>) \o BlockTexts(Tail(blocks))

\* ExtractTextFromMessages(messages)
RECURSIVE ExtractTextFromMessages(_)
ExtractTextFromMessages(messages) ==
  IF messages = <<>> THEN <<>>
  ELSE (CASE messages[1].content.kind = "string" -> messages[1].content.text
          [] messages[1].content.kind = "blocks" -> BlockTexts(messages[1].content.blocks)
          [] OTHER -> <<>>) \o ExtractTextFromMessages(Tail(messages))

(***************************************************************************)
(* SpecNorm: single request bodies, normalised by FormatRequest and then   *)
(* measured by ExtractTextFromMessages, as both handlers do.               *)
(***************************************************************************)
MaxMessages == 2

MessageTexts == {<<>>, <<"a">>, <<"b">>, <<NL, "a">>, <<"a", NL>>}

\* Messages with a string as content.
PlainMessages ==
  {Msg(role, StringContent(text)) : role \in {"user", "assistant"}, text \in MessageTexts}

\* Messages with a list as content, with no content, and what is no message.
OtherMessages ==
  {Msg("user", BlockContent(<<TextBlockOf(<<"a">>), TextBlockOf(<<"b">>)>>)),
   Msg("user", BlockContent(<<TextBlockOf(<<"a">>), ImageItem("image_url", "", NoUpload),
                              [type |-> "other"]>>)),
   Msg("user", BlockContent(<<ImageItem("image", "u", NoUpload), TextBlockOf(<<"b">>)>>)),
   Msg("user", BlockContent(<<TextBlockOf(<<"a">>), ImageItem("image", "data", Uploaded),
                              ImageItem("image_url", "data", UploadFailed)>>)),
   Msg("assistant",
       BlockContent(<<TextBlockOf(<<"a">>),
                      [type |-> "tool_use", id |-> "t1", name |-> "f",
                       input |-> <<LBrace, RBrace>>]>>)),
   Msg("user",
       BlockContent(<<[type |-> "tool_result", tool_use_id |-> "t1",
                       content |-> BlockContent(<<TextBlockOf(<<"a">>), TextBlockOf(<<>>),
                                                  TextBlockOf(<<"b">>)>>)],
                      [type |-> "tool_result", tool_use_id |-> "t2",
                       content |-> StringContent(<<"b">>)]>>)),
   Msg("user", NoContent),
   NotAnObject}

Systems ==
  {NoSystem, [kind |-> "other"],
   StringContent(<<>>), StringContent(<<"s">>), StringContent(<<NL, NL, "s", NL>>),
   BlockContent(<<>>),
   BlockContent(<<TextBlockOf(<<NL, "s">>), [type |-> "other"], TextBlockOf(<<"t">>)>>)}

\* The messages field: a list, or absent or no list.
MessagesFields ==
  {NoContent} \cup {BlockContent(ms) : ms \in SeqsUpTo(PlainMessages \cup OtherMessages,
                                                       MaxMessages)}

NormInit ==
  \E system \in Systems, messages \in MessagesFields :
    /\ reqCall = [pc |-> "called", data |-> [system |-> system, messages |-> messages]]
    /\ reqResult = Nil
    /\ GetConfig("reasoning") /\ phaseBak = "thinking"
    /\ NoFmt /\ NoStream /\ NoRequest /\ NoRace /\ NoSig /\ NoSend

\* formattedData, err := services.FormatRequest(requestData, ...)
FormatRequestCall ==
  /\ reqCall.pc = "called"
  /\ reqCall' = [reqCall EXCEPT !.pc = "formatted"]
  /\ \E msgs \in {FormatRequest(reqCall.data)} :
       reqResult' = [messages |-> msgs, result |-> ResultMap(msgs),
                     err |-> FormatRequestError(reqCall.data)]
  /\ UNCHANGED normRest

\* promptText := services.ExtractTextFromMessages(messages)
ExtractTextCall ==
  /\ reqCall.pc = "formatted"
  /\ reqCall' = [reqCall EXCEPT !.pc = "extracted"]
  /\ reqResult' = [promptText |-> ExtractTextFromMessages(reqResult.messages)] @@ reqResult
  /\ UNCHANGED normRest

\* FormatRequest applied to the map FormatRequest returned.
FormatRequestAgain ==
  /\ reqCall.pc = "extracted"
  /\ reqCall' = [reqCall EXCEPT !.pc = "reformatted"]
  /\ reqResult' = [again |-> FormatRequest(reqResult.result)] @@ reqResult
  /\ UNCHANGED normRest

NormNext == FormatRequestCall \/ ExtractTextCall \/ FormatRequestAgain

SpecNorm == NormInit /\ [][NormNext]_vars

(***************************************************************************)
(* Claims about FormatRequest and ExtractTextFromMessages                  *)
(***************************************************************************)
\* The prompt text of the request has been extracted.
Extracted == reqCall.pc = "extracted"

\* The messages field is a list of messages that all have a string as content.
AllPlainStrings(data) ==
  /\ data.messages.kind = "blocks"
  /\ \A j \in 1..Len(data.messages.blocks) :
       /\ IsObject(data.messages.blocks[j])
       /\ data.messages.blocks[j].content.kind = "string"

\* The strings of the messages, one after the other.
RECURSIVE ConcatStrings(_)
ConcatStrings(items) ==
  IF items = <<>> THEN <<>> ELSE items[1].content.text \o ConcatStrings(Tail(items))

\* The text of the system field as the system message holds it: a string without its
\* leading newlines, or the text blocks of a list, each without its leading newlines,
\* joined by a blank line; empty without a system field.
SystemText(system) ==
  CASE system.kind = "string" -> TrimLeftNL(system.text)
    [] system.kind = "blocks" -> JoinWith(SystemItems(system.blocks), <<NL, NL>>)
    [] OTHER -> <<>>

\* C10 as stated: when all messages of the request have a string as content, the text
\* extracted from the messages FormatRequest built is exactly the concatenation of
\* those strings.
C10_ExtractIsConcatenation ==
  (Extracted /\ AllPlainStrings(reqCall.data)) =>
    reqResult.promptText = ConcatStrings(reqCall.data.messages.blocks)

\* C10, amended: when all messages of the request have a string as content, the text
\* extracted from the messages FormatRequest built is the text of the system field
\* followed by the concatenation of those strings, each unchanged and in order.
C10_ExtractIsSystemThenConcatenation ==
  (Extracted /\ AllPlainStrings(reqCall.data)) =>
    reqResult.promptText
      = SystemText(reqCall.data.system) \o ConcatStrings(reqCall.data.messages.blocks)

\* C10 witness: a request with a system text and two different string messages, the
\* first starting with a newline, has been normalised and its text extracted.
C10_Witness ==
  /\ Extracted /\ AllPlainStrings(reqCall.data)
  /\ SystemText(reqCall.data.system) # <<>>
  /\ Len(reqCall.data.messages.blocks) = 2
  /\ reqCall.data.messages.blocks[1].content.text = <<NL, "a">>
  /\ reqCall.data.messages.blocks[2].content.text = <<"b">>
  /\ reqResult.promptText = SystemText(reqCall.data.system) \o <<NL, "a", "b">>

\* FormatRequest has been applied to its own output.
Reformatted == reqCall.pc = "reformatted"

\* C11: FormatRequest applied to the output of FormatRequest yields the same message
\* list as the first application.
C11_FormatRequestIdempotent ==
  Reformatted => reqResult.again = reqResult.messages

(***************************************************************************)
(* The handlers up to the upstream response (handlers/chat and             *)
(* handlers/messages, lines 16-87), with the upstream calls FormatRequest  *)
(* makes: UploadImage for an image with a data: URL and GetModels.         *)
(***************************************************************************)
\* The request body: text that does not start with a JSON object or null, the JSON
\* text null, a JSON object, or a JSON object followed by more text.
GarbageBody == [kind |-> "garbage"]
NullBody == [kind |-> "null"]
ObjectBody(data) == [kind |-> "object", data |-> data]
TrailingBody(data) == [kind |-> "trailing", data |-> data]

EmptyData == [system |-> NoSystem, messages |-> NoContent]

\* json.NewDecoder(r.Body).Decode(&requestData): the decoder reads one JSON value
\* from the start of the body and leaves what follows it unread; null leaves the
\* map nil.
Decode(body) ==
  CASE body.kind = "garbage" -> [err |-> "invalid"]
    [] body.kind = "null" -> [err |-> "", data |-> EmptyData]
    [] OTHER -> [err |-> "", data |-> body.data]

\* A mutant of DecodeFails: the error of Decode is not looked at.
DecodeFailsNever(d) == FALSE

\* chat.go 25 and messages.go 24: the handler stops on the error of Decode.
DecodeFails(d) == d.err # ""

\* http.Error(w, ..., code), and w.WriteHeader(code).
HttpError(code) == [type |-> "http_error", status |-> code]
WriteHeader(code) == [type |-> "header", status |-> code]

\* The answers of the upstream to the upload of a file and to the request for the
\* models.
UploadReplies == {[kind |-> "fail"], [kind |-> "status"], [kind |-> "ok"]}
ModelsReplies ==
  {[kind |-> "fail"], [kind |-> "status"], [kind |-> "undecodable"], [kind |-> "invalid"],
   [kind |-> "ok", models |-> <<>>]}

\* UploadImage(mediaURL, chatID) with the token tok and the user cache cch, u being
\* what GetUser returns if it is called: the result, the cache afterwards and the
\* requests made.
UploadImage(mediaURL, tok, cch, u, reply) ==
  IF tok = "" \/ mediaURL # "data"
  THEN [result |-> NoUpload, cache |-> cch, requests |-> <<>>]
  ELSE IF u.err # ""
  THEN [result |-> UploadFailed, cache |-> u.cache, requests |-> u.requests]
  ELSE [result |-> IF reply.kind = "ok" THEN Uploaded ELSE UploadFailed,
        cache |-> u.cache,
        requests |-> u.requests \o <<[to |-> "files", Authorization |-> u.user.Token]>>]

\* ModelsService.GetModels() with the cached catalogue mc, likewise.
GetModels(mc, tok, cch, u, reply) ==
  IF mc # Nil
  THEN [err |-> "", modelCache |-> mc, cache |-> cch, requests |-> <<>>]
  ELSE IF u.err # ""
  THEN [err |-> "failed to get user", modelCache |-> mc, cache |-> u.cache,
        requests |-> u.requests]
  ELSE [err |-> IF reply.kind = "ok" THEN "" ELSE reply.kind,
        modelCache |-> IF reply.kind = "ok" THEN [Data |-> reply.models] ELSE mc,
        cache |-> u.cache,
        requests |-> u.requests
                       \o <<[to |-> "models",
                             Authorization |-> IF tok # "" THEN tok ELSE u.user.Token]>>]

IsDataImage(item) == item.type \in {"image", "image_url"} /\ item.url = "data"

\* Some message of the request holds an image with a data: URL.
HasDataImage(data) ==
  /\ data.messages.kind = "blocks"
  /\ \E j \in 1..Len(data.messages.blocks) :
       /\ IsObject(data.messages.blocks[j])
       /\ data.messages.blocks[j].content.kind = "blocks"
       /\ \E k \in 1..Len(data.messages.blocks[j].content.blocks) :
            IsDataImage(data.messages.blocks[j].content.blocks[k])

\* The request, each image with a data: URL holding what UploadImage returned.
ResolveBlocks(blocks, up) ==
  [k \in 1..Len(blocks) |->
     IF IsDataImage(blocks[k]) THEN [blocks[k] EXCEPT !.upload = up] ELSE blocks[k]]

ResolveMessage(m, up) ==
  IF IsObject(m) /\ m.content.kind = "blocks"
  THEN Msg(m.role, BlockContent(ResolveBlocks(m.content.blocks, up)))
  ELSE m

ResolveData(data, up) ==
  IF data.messages.kind # "blocks" THEN data
  ELSE [data EXCEPT !.messages =
          BlockContent([j \in 1..Len(data.messages.blocks) |->
                          ResolveMessage(data.messages.blocks[j], up)])]

(***************************************************************************)
(* SpecInbound: one inbound request, from its arrival at ChatCompletions   *)
(* or AnthropicMessages to the upstream response.  The stream flag of the  *)
(* body is the one of the path.                                            *)
(***************************************************************************)
inboundRest ==
  <<cfgVars, phaseBak, fmtVars, sseVars, raceVars, sigVars, path, toolCallParts, textParts,
    reasoningParts, hasToolCall, token, now, mapping, modelCalls>>

InboundData ==
  {EmptyData,
   [system |-> NoSystem,
    messages |-> BlockContent(<<Msg("user", StringContent(<<"h", "i">>))>>)],
   [system |-> StringContent(<<"s">>),
    messages |-> BlockContent(<<Msg("user",
                                    BlockContent(<<TextBlockOf(<<"a">>),
                                                   ImageItem("image", "data", NoUpload)>>))>>)]}

InboundBodies ==
  {GarbageBody, NullBody} \cup {ObjectBody(d) : d \in InboundData}
    \cup {TrailingBody(d) : d \in InboundData}

InboundInit ==
  \E p \in Paths, tok \in Tokens, method \in {"POST", "OPTIONS"}, body \in InboundBodies :
    /\ path = p /\ hPc = "received"
    /\ reqCall = [pc |-> "inbound", method |-> method, body |-> body]
    /\ reqResult = Nil
    /\ toolCallParts = <<>> /\ textParts = <<>> /\ reasoningParts = <<>>
    /\ hasToolCall = FALSE /\ out = <<>>
    /\ token = tok /\ cache = <<>> /\ now = 0 /\ upstream = <<>> /\ sendResult = Nil
    /\ modelCache = Nil /\ mapping = <<>> /\ modelCalls = <<>>
    /\ GetConfig("reasoning") /\ phaseBak = "thinking"
    /\ NoFmt /\ NoStream /\ NoRace /\ NoSig

\* The handler answers o and returns.
HandlerAnswers(o) == hPc' = "returned" /\ out' = <<o>>

\* chat.go 17-28, messages.go 16-27: the preflight, and the decoding of the body.
HandlerDecode ==
  /\ hPc = "received"
  /\ \E d \in {Decode(reqCall.body)} :
       IF reqCall.method = "OPTIONS" THEN HandlerAnswers(WriteHeader(200)) /\ reqCall' = reqCall
       ELSE IF DecodeFails(d) THEN HandlerAnswers(HttpError(400)) /\ reqCall' = reqCall
       ELSE /\ hPc' = "decoded" /\ out' = out
            /\ reqCall' = [pc |-> "decoded", method |-> reqCall.method,
                           body |-> reqCall.body, data |-> d.data]
  /\ UNCHANGED <<reqResult, cache, upstream, sendResult, modelCache, inboundRest>>

\* chat.go 48-52, messages.go 40-44: FormatRequest, with the upload of the image and
\* the fetch of the models it makes.
HandlerFormat ==
  /\ hPc = "decoded"
  /\ \E a1 \in AuthReplies, a2 \in AuthReplies, ur \in UploadReplies, mr \in ModelsReplies :
       \E up \in {IF HasDataImage(reqCall.data)
                   THEN UploadImage("data", token, cache, GetUser(token, cache, now, a1), ur)
                   ELSE [result |-> NoUpload, cache |-> cache, requests |-> <<>>]} :
         \E gm \in {GetModels(modelCache, token, up.cache,
                                GetUser(token, up.cache, now, a2), mr)} :
           \E msgs \in {FormatRequest(ResolveData(reqCall.data, up.result))} :
             /\ reqResult' = [messages |-> msgs, result |-> ResultMap(msgs),
                              err |-> FormatRequestError(reqCall.data)]
             /\ upstream' = upstream \o up.requests \o gm.requests
             /\ cache' = gm.cache
             /\ modelCache' = gm.modelCache
             /\ IF FormatRequestError(reqCall.data) # "" THEN HandlerAnswers(HttpError(500))
                ELSE hPc' = "formatted" /\ out' = out
  /\ reqCall' = [reqCall EXCEPT !.pc = "formatted"]
  /\ UNCHANGED <<sendResult, inboundRest>>

\* What client.Do gives a handler for the chat request: also a status that tells the
\* client it is at fault.
HandlerChatOutcomes == ChatOutcomes \cup {ChatStatus(401)}

\* chat.go 77-87, messages.go 66-76: SendChatRequest and the status of the response.
HandlerSend ==
  /\ hPc = "formatted"
  /\ \E reply \in AuthReplies, chat \in HandlerChatOutcomes :
       \E ranged \in RangeOrders({"requestId", "timestamp", "user_id"}) :
         \E u \in {GetUser(token, cache, now, reply)} :
           \E r \in {SendChatRequest(u, now, reqResult.messages, chat, ranged)} :
             /\ cache' = u.cache
             /\ upstream' = upstream \o r.requests
             /\ sendResult' = r.result
             /\ IF r.result.err # "" THEN HandlerAnswers(HttpError(500))
                ELSE IF r.result.StatusCode # 200
                THEN HandlerAnswers(HttpError(r.result.StatusCode))
                ELSE hPc' = "start" /\ out' = out
  /\ UNCHANGED <<reqCall, reqResult, modelCache, inboundRest>>

InboundNext == HandlerDecode \/ HandlerFormat \/ HandlerSend

SpecInbound == InboundInit /\ [][InboundNext]_vars

(***************************************************************************)
(* Claims about the handlers up to the upstream response                   *)
(***************************************************************************)
\* The body is a JSON text: one JSON value and nothing after it.
BodyIsJSON(body) == body.kind \in {"object", "null"}

\* A request, not a preflight, has arrived whose body is no JSON text.
MalformedInbound ==
  hPc # "idle" /\ reqCall.method = "POST" /\ ~BodyIsJSON(reqCall.body)

\* C15: when the body of the request is no JSON text, the handler answers 400 and
\* returns, and no upstream call is made for the request: no fetch of the models or
\* of the user, no upload and no chat request.
C15_MalformedBodyRejected ==
  MalformedInbound =>
    /\ upstream = <<>>
    /\ hPc = "received" \/ (hPc = "returned" /\ out = <<HttpError(400)>>)

(***************************************************************************)
(* Claims about the messages FormatRequest builds                          *)
(***************************************************************************)
\* The elements of a list.
Range(list) == {list[j] : j \in 1..Len(list)}

\* FormatRequest has returned for the request of reqCall.
Formatted == reqCall.pc \in {"formatted", "extracted", "reformatted"} /\ reqResult # Nil

\* The messages field is a list with an element that is no message object.
ListUnparsable(data) ==
  /\ data.messages.kind = "blocks"
  /\ \E j \in 1..Len(data.messages.blocks) : ~IsObject(data.messages.blocks[j])

\* C16: FormatRequest returns an error exactly when the message list cannot be parsed
\* into message objects; whatever else of the request is missing or malformed, it
\* returns no error.
C16_ErrorIffListUnparsable ==
  Formatted => (reqResult.err # "" <=> ListUnparsable(reqCall.data))

\* The messages of the request that are objects with a list as content.
ListMessages(data) ==
  IF data.messages.kind # "blocks" THEN {}
  ELSE {m \in Range(data.messages.blocks) : IsObject(m) /\ m.content.kind = "blocks"}

\* The tool_use blocks of the assistant messages of the request.
ToolUseBlocks(data) ==
  UNION {{b \in Range(m.content.blocks) : b.type = "tool_use"} :
           m \in {x \in ListMessages(data) : x.role = "assistant"}}

\* The message carries a tool call for the block.
CarriesToolCall(o, b) ==
  /\ o.role = "assistant"
  /\ "tool_calls" \in DOMAIN o
  /\ \E k \in 1..Len(o.tool_calls) :
       /\ o.tool_calls[k].id = b.id
       /\ o.tool_calls[k].name = b.name
       /\ o.tool_calls[k].arguments = b.input

\* C17: for every tool_use block of an assistant message, the messages FormatRequest
\* builds hold an assistant message with a tool call of the block's id and name and
\* with the serialised input of the block as arguments.
C17_ToolUseGivesToolCall ==
  Formatted =>
    \A b \in ToolUseBlocks(reqCall.data) :
      \E j \in 1..Len(reqResult.messages) : CarriesToolCall(reqResult.messages[j], b)

\* The texts of the text parts of a tool result, one after the other.
RECURSIVE NestedText(_)
NestedText(parts) ==
  IF parts = <<>> THEN <<>>
  ELSE (IF parts[1].type = "text" THEN parts[1].text ELSE <<>>) \o NestedText(Tail(parts))

\* The tool message a tool_result block stands for.
ToolMessageOf(b) ==
  [role |-> "tool", tool_call_id |-> b.tool_use_id,
   content |-> StringContent(IF b.content.kind = "blocks" THEN NestedText(b.content.blocks)
                             ELSE b.content.text)]

\* The tool messages of the tool_result blocks of a list of blocks, in their order.
RECURSIVE ToolMessagesOfBlocks(_)
ToolMessagesOfBlocks(blocks) ==
  IF blocks = <<>> THEN <<>>
  ELSE (IF blocks[1].type = "tool_result" THEN <<ToolMessageOf(blocks[1])>> ELSE <<>>)
         \o ToolMessagesOfBlocks(Tail(blocks))

\* The tool messages of the tool_result blocks of a list of messages, in their order.
RECURSIVE ToolMessagesOf(_)
ToolMessagesOf(items) ==
  IF items = <<>> THEN <<>>
  ELSE (IF IsObject(items[1]) /\ items[1].content.kind = "blocks"
        THEN ToolMessagesOfBlocks(items[1].content.blocks) ELSE <<>>)
         \o ToolMessagesOf(Tail(items))

\* The messages of role tool among the messages, in their order.
RECURSIVE ToolRole(_)
ToolRole(msgs) ==
  IF msgs = <<>> THEN <<>>
  ELSE (IF msgs[1].role = "tool" THEN <<msgs[1]>> ELSE <<>>) \o ToolRole(Tail(msgs))

ExpectedToolMessages(data) ==
  IF data.messages.kind = "blocks" THEN ToolMessagesOf(data.messages.blocks) ELSE <<>>

\* C18: the messages of role tool that FormatRequest builds are, in the order of the
\* messages and blocks of the request, one message for each tool_result block, with
\* the tool_use_id of the block and the concatenation of its nested text parts, or
\* its string content.
C18_ToolResultsInOrder ==
  Formatted => ToolRole(reqResult.messages) = ExpectedToolMessages(reqCall.data)

\* FormatRequest has built the tool messages of several tool_result blocks, one of
\* them with several nested text parts.
C18_Witness ==
  /\ Formatted
  /\ Len(ToolRole(reqResult.messages)) >= 3
  /\ \E j \in 1..Len(reqResult.messages) :
       /\ reqResult.messages[j].role = "tool"
       /\ reqResult.messages[j].content.text = <<"a", "b">>
  /\ reqResult.messages[1].role # "tool"

\* The request has a system field that is a string or a list.
HasSystem(data) == data.system.kind \in {"string", "blocks"}

\* The text fragments of the system field.
RECURSIVE Fragments(_)
Fragments(blocks) ==
  IF blocks = <<>> THEN <<>>
  ELSE (IF blocks[1].type = "text" THEN <<blocks[1].text>> ELSE <<>>)
         \o Fragments(Tail(blocks))

RECURSIVE StrippedAndJoined(_)
StrippedAndJoined(fragments) ==
  IF fragments = <<>> THEN <<>>
  ELSE IF Len(fragments) = 1 THEN TrimLeftNL(fragments[1])
  ELSE TrimLeftNL(fragments[1]) \o <<NL, NL>> \o StrippedAndJoined(Tail(fragments))

\* The text of the system field: its fragments, leading newlines stripped, joined by
\* a blank line.
SystemFieldText(data) ==
  StrippedAndJoined(IF data.system.kind = "string" THEN <<data.system.text>>
                    ELSE Fragments(data.system.blocks))

\* The messages start with one system message of the text, before the messages the
\* request gives without its system field.
StartsWithSystem(msgs, data) ==
  msgs = <<Msg("system", StringContent(SystemFieldText(data)))>>
           \o FormatRequest([system |-> NoSystem, messages |-> data.messages])

\* C19 as stated: whenever the request has a system field, the messages start with
\* one system message of its text, before every converted message, and the system
\* field is removed from the upstream request.
C19_SystemFieldGivesSystemMessage ==
  (Formatted /\ HasSystem(reqCall.data)) =>
    /\ StartsWithSystem(reqResult.messages, reqCall.data)
    /\ reqResult.result.system = NoSystem

\* C19: whenever the request has a system field whose text is not empty, the messages
\* start with one system message of its text, before every converted message; with
\* an empty text there is no system message; the system field is removed from the
\* upstream request in both cases.
C19_NonEmptySystemGivesSystemMessage ==
  (Formatted /\ HasSystem(reqCall.data)) =>
    /\ SystemFieldText(reqCall.data) # <<>> =>
         StartsWithSystem(reqResult.messages, reqCall.data)
    /\ SystemFieldText(reqCall.data) = <<>> =>
         reqResult.messages
           = FormatRequest([system |-> NoSystem, messages |-> reqCall.data.messages])
    /\ reqResult.result.system = NoSystem

\* FormatRequest has built the system message of a list of fragments with leading
\* newlines, before a converted message.
C19_Witness ==
  /\ Formatted
  /\ reqCall.data.system.kind = "blocks"
  /\ Len(reqResult.messages) >= 2
  /\ reqResult.messages[1] = Msg("system", StringContent(<<"s", NL, NL, "t">>))
  /\ reqResult.messages[2].role = "user"

\* The image blocks of a message.
ImageBlocks(m) == {b \in Range(m.content.blocks) : b.type \in {"image_url", "image"}}

\* The message has a list as content, and a block of the list stands for the image
\* block: an image, or the text of its error.
HoldsImage(o, b) ==
  /\ o.content.kind = "maps"
  /\ \E k \in 1..Len(o.content.blocks) :
       LET c == o.content.blocks[k]
       IN IF b.url = "" THEN c = TextBlockOf(ImageErrorText)
          ELSE IF b.upload.err # "" THEN c.type = "text" /\ c.text[2] = b.upload.err
          ELSE c.type = "image_url"

\* C20: the content array of a message only grows while its blocks are flattened: an
\* image block, or the error text of one, that was appended is in the final content
\* of the message, whatever blocks follow it.
C20_AppendedBlocksStay ==
  Formatted =>
    \A m \in ListMessages(reqCall.data) : \A b \in ImageBlocks(m) :
      \E j \in 1..Len(reqResult.messages) : HoldsImage(reqResult.messages[j], b)

\* The text t is part of the text s.
IsInfix(t, s) == \E k \in 0..(Len(s) - Len(t)) : t = SubSeq(s, k + 1, k + Len(t))

\* The texts of the text blocks of a message, one after the other.
TextOfBlocks(m) == BlockTexts(m.content.blocks)

\* The text a message of the output carries: its string, or the texts of its blocks.
CarriedText(o) ==
  CASE o.content.kind = "string" -> o.content.text
    [] o.content.kind = "maps" -> BlockTexts(o.content.blocks)
    [] OTHER -> <<>>

\* C21: for every message with a list of blocks as content, the texts of its text
\* blocks, in the order of the blocks, are in a message FormatRequest builds: a later
\* text block does not replace an earlier one, and text next to tool_use or tool_result
\* blocks is not lost.
C21_TextBlocksAccumulate ==
  Formatted =>
    \A m \in ListMessages(reqCall.data) :
      \E j \in 1..Len(reqResult.messages) :
        /\ reqResult.messages[j].role = m.role
        /\ IsInfix(TextOfBlocks(m), CarriedText(reqResult.messages[j]))

(***************************************************************************)
(* The features of FormatRequest (request.go 272-318).  A field of the     *)
(* request is absent or has a value; the features are a map with the value *)
(* of enable_thinking ("none" when the key is not in the map) and with or  *)
(* without other keys.  think is what the capabilities of the model of the *)
(* request say ("none" when the catalogue, the model or the capability is  *)
(* missing).                                                               *)
(***************************************************************************)
NoField == [kind |-> "absent"]
FieldValue(value) == [kind |-> "value", value |-> value]
FeatureMap(et, other) == [kind |-> "map", et |-> et, other |-> other]
ThinkingMap(type) == [kind |-> "map", type |-> type]

\* strings.ToLower, on the thinking types of the model.
ToLower(t) == IF t = "ENABLED" THEN "enabled" ELSE t

BoolText(b) == IF b THEN "true" ELSE "false"

\* Lines 297-314: enable_thinking is deleted when the model cannot think.
Negotiated(features, think) ==
  IF think = "false" THEN [features EXCEPT !.et = "none"] ELSE features

\* Lines 272-314: the features map FormatRequest builds.
Features(data, think) ==
  LET merged == IF data.features.kind = "map"
                THEN FeatureMap(IF data.features.et # "none" THEN data.features.et
                                ELSE "false", data.features.other)
                ELSE FeatureMap("false", FALSE)
      qwen == IF data.enable_thinking.kind # "absent"
              THEN [merged EXCEPT !.et = data.enable_thinking.value] ELSE merged
      anthropic == IF data.thinking.kind = "map" /\ data.thinking.type # "none"
                   THEN [qwen EXCEPT !.et = BoolText(ToLower(data.thinking.type) = "enabled")]
                   ELSE qwen
  IN Negotiated(anthropic, think)

\* Lines 26-28, 285-295 and 316-318: the three fields in the map FormatRequest
\* returns.  The features built replace the ones copied from the request when they
\* are not empty.
ResultFeatures(data, think) ==
  [features |-> IF Features(data, think).et # "none" \/ Features(data, think).other
                THEN Features(data, think) ELSE data.features,
   enable_thinking |-> NoField,
   thinking |-> IF data.thinking.kind = "map" THEN NoField ELSE data.thinking]

(***************************************************************************)
(* SpecFeat: single requests with their thinking fields, and what          *)
(* FormatRequest makes of them.                                            *)
(***************************************************************************)
FeatureFields ==
  {NoField, FieldValue("other")}
    \cup {FeatureMap(et, other) : et \in {"none", "true", "false"}, other \in BOOLEAN}

QwenFields == {NoField, FieldValue("true"), FieldValue("false")}

ThinkingFields ==
  {NoField, FieldValue("other")}
    \cup {ThinkingMap(t) : t \in {"none", "enabled", "disabled", "ENABLED"}}

FeatInit ==
  \E features \in FeatureFields, qwen \in QwenFields, thinking \in ThinkingFields,
     think \in {"none", "true", "false"} :
    /\ reqCall = [pc |-> "features", think |-> think,
                  data |-> [features |-> features, enable_thinking |-> qwen,
                            thinking |-> thinking]]
    /\ reqResult = Nil
    /\ GetConfig("reasoning") /\ phaseBak = "thinking"
    /\ NoFmt /\ NoStream /\ NoRequest /\ NoRace /\ NoSig /\ NoSend

\* FormatRequest, as far as the features go.
FormatRequestFeatures ==
  /\ reqCall.pc = "features"
  /\ reqCall' = [reqCall EXCEPT !.pc = "negotiated"]
  /\ reqResult' = ResultFeatures(reqCall.data, reqCall.think)
  /\ UNCHANGED normRest

SpecFeat == FeatInit /\ [][FormatRequestFeatures]_vars

\* FormatRequest has returned for the request of reqCall.
FeaturesDone == reqCall.pc = "negotiated"

\* The value of features.enable_thinking in the request FormatRequest returned.
EnableThinking ==
  IF reqResult.features.kind = "map" THEN reqResult.features.et ELSE "none"

\* The caller asked for no thinking mode in any of the three forms.
NoThinkingRequest(data) ==
  /\ ~(data.features.kind = "map" /\ data.features.et # "none")
  /\ data.enable_thinking.kind = "absent"
  /\ ~(data.thinking.kind = "map" /\ data.thinking.type # "none")

\* C22: after FormatRequest, features.enable_thinking is absent when the capabilities
\* of the model mark think as false; otherwise it is one boolean, and it is false when
\* the caller asked for nothing.
C22_ThinkingNegotiated ==
  FeaturesDone =>
    /\ reqCall.think = "false" => EnableThinking = "none"
    /\ reqCall.think # "false" =>
         /\ EnableThinking \in {"true", "false"}
         /\ NoThinkingRequest(reqCall.data) => EnableThinking = "false"

\* The chat request of the handler could not be sent, or its response has a status
\* that is not 2xx.
ChatCallFailed ==
  /\ sendResult # Nil
  /\ \/ sendResult.err = "failed to send request"
     \/ sendResult.err = "" /\ sendResult.StatusCode \notin 200..299

\* The chat requests among the requests made upstream.
ChatCalls == {j \in 1..Len(upstream) : upstream[j].to = "chat"}

\* C23: when the chat request cannot be sent or its response has a status that is not
\* 2xx, the handler answers with a server error and nothing else, no stream event and
\* no delta, and it has made one chat request and no second one.
C23_UpstreamFailureIsServerError ==
  ChatCallFailed =>
    /\ hPc = "returned"
    /\ Len(out) = 1 /\ out[1].type = "http_error" /\ out[1].status \in 500..599
    /\ Cardinality(ChatCalls) = 1

(***************************************************************************)
(* Claims about the phase a stream starts from                             *)
(***************************************************************************)
\* A previous phase that is none: no phase label.
Unset == "unset"

\* The event is an answer event with the summary marker and with text after the close
\* of the reasoning.
IsPauseWithText(ev) ==
  /\ HasData(ev) /\ EventPhase(ev) = "answer"
  /\ IsReasoningEvent("answer", EventContent(ev))
  /\ LET c == ToReasoningTags("answer", EventContent(ev))
     IN SplitAtClose(c) # 0 /\ HasNonSpace(Tail0(c, SplitAtClose(c) + 1))

\* The handler of a streamed OpenAI response has handled the first event of its
\* stream, and no other.
FirstEventHandled ==
  path = "OpenAIStream" /\ hPc = "loop" /\ Len(delivered) = 1

\* What the handler writes for a delta.
Written(delta) == IF delta = Nil THEN <<>> ELSE <<Chunk(delta)>>

\* C24: the previous phase is unset when a stream starts: a first answer event with
\* text after the close of the reasoning is handled by neither the rule for a
\* previous thinking phase nor the rule for a previous answer phase.
C24_FirstEventFollowsNoPhase ==
  (FirstEventHandled /\ IsPauseWithText(delivered[1])) =>
    out = Written(FormatResponse(delivered[1], "OpenAI", thinkMode, Unset).delta)

(***************************************************************************)
(* Claims about the answer event that holds the close of the reasoning     *)
(***************************************************************************)
\* The call was for an answer event with the summary marker whose text, in reasoning
\* tags, holds the close of the reasoning.
FmtAnswerWithClose ==
  /\ HasData(fmtCall.data) /\ EventPhase(fmtCall.data) = "answer"
  /\ ContainsAtom(EventContent(fmtCall.data), {SummaryOpen, SummaryClose})
  /\ \E k \in 1..Len(ToReasoningTags("answer", EventContent(fmtCall.data))) :
       ToReasoningTags("answer", EventContent(fmtCall.data))[k] = ReasoningClose

\* The text after the first close of the reasoning.
RECURSIVE AfterClose(_)
AfterClose(s) ==
  IF s = <<>> THEN <<>>
  ELSE IF s[1] = ReasoningClose THEN Tail(s) ELSE AfterClose(Tail(s))

\* s without the newlines it starts with.
RECURSIVE WithoutLeadingNL(_)
WithoutLeadingNL(s) ==
  IF s # <<>> /\ s[1] = NL THEN WithoutLeadingNL(Tail(s)) ELSE s

CloseMarker == <<NL, NL, ReasoningClose>>

\* The event's text in reasoning tags, and the text after its close marker.
FmtTagged == ToReasoningTags("answer", EventContent(fmtCall.data))
FmtTrailing == AfterClose(FmtTagged)
FmtTrailingText == \E k \in 1..Len(FmtTrailing) : FmtTrailing[k] \notin {NL, SP}

\* The delta of the call is the one of the answer text c, rewritten for the mode.
FmtDeltaIsOf(c) ==
  fmtDelta = BuildDelta("answer", ApplyThinkMode(thinkMode, "answer", c), thinkMode,
                        fmtCall.responseType)

\* C25: for an answer event with the summary marker and the close of the reasoning:
\* with text after the marker and the previous phase thinking, the output is the close
\* marker followed by that text; with text after it and the previous phase answer,
\* nothing is emitted; with no text after it, the output is the close marker alone
\* (each before the rewrite for the mode).
C25_AnswerPauseCases ==
  (FmtReturned /\ FmtAnswerWithClose) =>
    /\ (FmtTrailingText /\ fmtCall.phaseBak = "thinking") =>
         FmtDeltaIsOf(CloseMarker \o <<NL, NL>> \o WithoutLeadingNL(FmtTrailing))
    /\ (FmtTrailingText /\ fmtCall.phaseBak = "answer") => fmtDelta = Nil
    /\ ~FmtTrailingText => FmtDeltaIsOf(CloseMarker)

\* An answer event with text after the close of the reasoning was formatted after a
\* thinking event, and the text is in the delta.
C25_Witness ==
  /\ FmtReturned /\ FmtAnswerWithClose /\ FmtTrailingText
  /\ fmtCall.phaseBak = "thinking" /\ thinkMode = "think"
  /\ fmtDelta # Nil
  /\ \E k \in 1..Len(AnswerText(fmtDelta)) : AnswerText(fmtDelta)[k] = TX

(***************************************************************************)
(* Claims about the deltas of a streamed OpenAI response, where each delta *)
(* is written as one chunk                                                 *)
(***************************************************************************)
\* The handler of a streamed OpenAI response is in its loop and has written one chunk
\* for each event it received.
ChunkPerEvent == path = "OpenAIStream" /\ hPc = "loop" /\ Len(out) = Len(delivered)

IsToolChunk(o) == o.event = "chunk" /\ HasKey(o.delta, "tool_call")

\* The event is labelled other, or has no phase label.
IsOtherEvent(ev) == HasData(ev) /\ ev.Phase \in {"other", ""}

HasWrapperMarker(ev) ==
  \E k \in 1..Len(EventContent(ev)) : EventContent(ev)[k] \in {GlmOpen, GlmClose}

\* The phase event k ended in: tool_call when it was output as a tool-call fragment,
\* the phase of its label otherwise.
FinalPhase(k) ==
  IF IsToolChunk(out[k]) THEN "tool_call"
  ELSE IF delivered[k].Phase = "" THEN "other" ELSE delivered[k].Phase

\* C26: an event labelled other, or without a label, is output as a tool-call fragment
\* and leaves tool_call as the previous phase exactly when the previous phase is
\* tool_call and its content holds the wrapper marker; in every other case it stays
\* other.  So the events of this kind that follow a tool_call event one after the
\* other are all reclassified.
C26_OtherAfterToolCallReclassified ==
  ChunkPerEvent =>
    /\ \A k \in 2..Len(delivered) :
         IsOtherEvent(delivered[k]) =>
           (IsToolChunk(out[k])
              <=> (FinalPhase(k - 1) = "tool_call" /\ HasWrapperMarker(delivered[k])))
    /\ Len(delivered) >= 1 => phaseBak = FinalPhase(Len(delivered))

\* Two events labelled other that followed a tool_call event one after the other were
\* both output as tool-call fragments.
C26_Witness ==
  /\ ChunkPerEvent /\ Len(delivered) = 3
  /\ delivered[1].Phase = "tool_call"
  /\ IsOtherEvent(delivered[2]) /\ IsOtherEvent(delivered[3])
  /\ IsToolChunk(out[2]) /\ IsToolChunk(out[3])
  /\ phaseBak = "tool_call"

(***************************************************************************)
(* Claims about the kind of delta FormatResponse returns                   *)
(***************************************************************************)
IsReasoningDelta(d) == HasKey(d, "thinking") \/ HasKey(d, "reasoning_content")
IsToolDelta(d) == HasKey(d, "tool_call")
IsAnswerDelta(d) == HasKey(d, "text") \/ HasKey(d, "content")

\* The phase of the event of the call after the reclassification: tool_call for an
\* event labelled other that follows a tool_call event and holds the wrapper marker.
FmtFinalPhase ==
  IF IsOtherEvent(fmtCall.data) /\ fmtCall.phaseBak = "tool_call"
     /\ HasWrapperMarker(fmtCall.data)
  THEN "tool_call"
  ELSE IF fmtCall.data.Phase = "" THEN "other" ELSE fmtCall.data.Phase

\* The delta is of the kind the final phase and the mode select.
KindSelected ==
  /\ IsReasoningDelta(fmtDelta) <=> (FmtFinalPhase = "thinking" /\ thinkMode = "reasoning")
  /\ IsToolDelta(fmtDelta) <=> FmtFinalPhase = "tool_call"
  /\ (~IsReasoningDelta(fmtDelta) /\ ~IsToolDelta(fmtDelta)) =>
       \/ fmtDelta = Nil
       \/ IsAnswerDelta(fmtDelta) /\ AnswerText(fmtDelta) # <<>>

\* C27 as stated: the kind of the delta FormatResponse returns is fixed by the final
\* phase and the mode: reasoning text exactly when the phase is thinking and the mode
\* reasoning, a tool-call fragment exactly when the phase is tool_call, otherwise
\* answer text when the rewritten content is not empty and nothing when it is.
C27_KindFixedByPhaseAndMode ==
  (FmtReturned /\ HasData(fmtCall.data)) => KindSelected

\* C27: for an event whose content (delta_content, or edit_content) is not empty the
\* kind of the delta is fixed by the final phase and the mode as stated; for an event
\* with empty content nothing is returned, whatever the phase and the mode.
C27_KindFixedForEventsWithContent ==
  (FmtReturned /\ HasData(fmtCall.data)) =>
    IF EventContent(fmtCall.data) # <<>> THEN KindSelected ELSE fmtDelta = Nil

\* A thinking event with content was formatted in reasoning mode and gave reasoning
\* text, on the OpenAI side.
C27_Witness ==
  /\ FmtReturned /\ HasData(fmtCall.data) /\ EventContent(fmtCall.data) # <<>>
  /\ fmtCall.data.Phase = "thinking" /\ thinkMode = "reasoning"
  /\ HasKey(fmtDelta, "reasoning_content")

(***************************************************************************)
(* Claims about the end of the event sequence                              *)
(***************************************************************************)
\* The chunks with a delta among what was written.
RECURSIVE DeltaChunks(_)
DeltaChunks(o) ==
  IF o = <<>> THEN 0
  ELSE (IF o[1].event = "chunk" /\ o[1].finish_reason = "nil" THEN 1 ELSE 0)
         + DeltaChunks(Tail(o))

\* The handler stopped at event k: it has returned, it received no event after k, and
\* on the streamed OpenAI path it wrote deltas for the events before k at most.
StoppedAt(k) ==
  /\ hPc = "returned"
  /\ Len(delivered) = k
  /\ path = "OpenAIStream" => DeltaChunks(out) <= k - 1

\* C28: on each of the four response paths the caller ends the event sequence at the
\* first event with done = true: no content of that event or of a later one reaches
\* the client.
C28_CallerStopsAtDone ==
  \A k \in 1..Len(delivered) : IsDone(delivered[k]) => StoppedAt(k)

(***************************************************************************)
(* Claims about the way of a tool-call fragment to the client              *)
(***************************************************************************)
\* C29: on every response path a tool-call fragment reaches the client only as part
\* of a tool invocation: no fragment is written as a delta of its own, and a tool
\* call that is complete (here: the first event of the stream is a whole object) is
\* in what the handler has written when it returns.
C29_ToolFragmentsOnlyAsInvocations ==
  /\ \A k \in 1..Len(out) : ~IsToolChunk(out[k])
  /\ (hPc = "returned" /\ Len(delivered) >= 1 /\ delivered[1] = ToolBare) =>
       ToolInvocations(out) >= 1

(***************************************************************************)
(* Claims about the arguments of a tool invocation                         *)
(***************************************************************************)
\* The arguments string of the object the fragments received so far add up to holds
\* a JSON object.
ArgumentsAreObject ==
  Field(Unmarshal(Join(toolCallParts)).obj, "arguments") = "string:object"

\* What was written at place k is a tool invocation with its arguments: a tool_use
\* block with an input, or the start of a streamed tool_use block with the chunks of
\* its input after it.
CarriesArguments(k) ==
  /\ out[k].event = "message" =>
       \A j \in 1..Len(out[k].content) :
         out[k].content[j].type = "tool_use" =>
           (out[k].content[j].input # "nil" /\ ArgumentsAreObject)
  /\ (out[k].event = "content_block_start" /\ out[k].type = "tool_use") =>
       /\ k < Len(out)
       /\ out[k + 1].event = "content_block_delta"
       /\ out[k + 1].type = "input_json_delta"
       /\ ArgumentsAreObject

\* C30: every tool invocation written carries the arguments object that the arguments
\* string of the accumulated object parses to; an accumulated object whose arguments
\* are missing, no string, or no JSON object gives no invocation without arguments.
C30_InvocationsCarryArguments ==
  \A k \in 1..Len(out) : CarriesArguments(k)

(***************************************************************************)
(* Claims about the content that is signed                                 *)
(***************************************************************************)
\* The text of the last message of role user, <<>> when there is none.
RECURSIVE LastUserText(_)
LastUserText(msgs) ==
  IF msgs = <<>> THEN <<>>
  ELSE IF msgs[Len(msgs)].role = "user" THEN CarriedText(msgs[Len(msgs)])
  ELSE LastUserText(SubSeq(msgs, 1, Len(msgs) - 1))

\* C31: the content SendChatRequest signs and sends as signature_prompt is the text of
\* the most recent user message of the normalised messages, be its content a string
\* or a list of blocks, and the empty string when there is no user message.
C31_SignedContentIsLastUserText ==
  \A j \in ChatCalls :
    "signature_prompt" \in DOMAIN upstream[j] =>
      upstream[j].signature_prompt = LastUserText(reqResult.messages)


(***************************************************************************)
(* SpecModels: calls of ModelsService.GetModels made by requests handled   *)
(* at the same time, and calls of ClearCache.  The sections GetModels and  *)
(* ClearCache run under cacheMutex are single steps; what GetModels does   *)
(* outside the mutex (the second read of s.cache, the fetch, the accesses  *)
(* of cfg.Model.Mapping in getModelID) is interleaved with the other       *)
(* calls.  modelCalls holds the place of each caller and the trace of the  *)
(* calls, returns and clears.                                              *)
(***************************************************************************)
MaxModelCalls == 3
MaxClears == 1

Callers == {1, 2}

\* The answers to GET /api/models: the failures, and catalogues named by the source
\* ids of their models (all of the form GLM-x.y).
CatalogueReplies ==
  ModelsReplies \cup {[kind |-> "ok", models |-> <<"GLM-4.5">>],
                      [kind |-> "ok", models |-> <<"GLM-4.6", "GLM-4.5">>]}

\* The answers to the request for the user while the models are fetched.
CatalogueAuthReplies == {AuthFailure, AuthJSON("u1", "n", "anon")}

\* models.go 227-248, getModelName, for a source id that starts with GLM and holds
\* a dot: the source id itself.
getModelName(sourceID, modelName) == sourceID

\* strings.ToLower on the names of the models.
LowerName(name) ==
  IF name = "GLM-4.5" THEN "glm-4.5" ELSE IF name = "GLM-4.6" THEN "glm-4.6" ELSE name

\* models.go 258-259: the id getModelID makes up for a model without mapping.
SmartID(modelName) == LowerName(modelName)

\* models.go 161-176: the types.Model built for a source id.
ModelOf(sourceID, modelID) ==
  [ID |-> modelID, Name |-> getModelName(sourceID, sourceID), Original |-> sourceID]

\* models.go 180-183: the *types.ModelsResponse.
ModelsResponse(models) == [Object |-> "list", Data |-> models]

\* cfg.Model.Mapping[sourceID] = smartID.
MappingWith(m, sourceID, smartID) ==
  [k \in DOMAIN m \cup {sourceID} |-> IF k = sourceID THEN smartID ELSE m[k]]

IdleCall == [pc |-> "idle"]

Crashed == \E c \in Callers : modelCalls.at[c].pc = "fatal"

Begun == Cardinality({j \in 1..Len(modelCalls.trace) : modelCalls.trace[j].ev = "call"})
Clears == Cardinality({j \in 1..Len(modelCalls.trace) : modelCalls.trace[j].ev = "clear"})

\* The caller c is at pc with the rest of its state.
At(c, state) == [modelCalls.at EXCEPT ![c] = state]

\* GetModels returns (result, err) to the caller c.
Returns(c, result, err, fetched) ==
  [at |-> At(c, IdleCall),
   trace |-> Append(modelCalls.trace,
                    [ev |-> "return", caller |-> c, result |-> result, err |-> err,
                     fetched |-> fetched])]

\* The runtime stops the process on an access of the map during a write of it.
Fatal == [at |-> [c \in Callers |-> [pc |-> "fatal"]], trace |-> modelCalls.trace]

\* Some other caller is inside its assignment to cfg.Model.Mapping.
OtherWriting(c) == \E d \in Callers \ {c} : modelCalls.at[d].pc = "writing"

\* What a read of cfg.Model.Mapping by c may see: the map, and while another
\* caller is writing it also the map with that write done.
Readable(c) ==
  {mapping} \cup {MappingWith(mapping, modelCalls.at[d].models[modelCalls.at[d].k],
                              SmartID(getModelName(modelCalls.at[d].models[modelCalls.at[d].k],
                                                   modelCalls.at[d].models[modelCalls.at[d].k]))) :
                    d \in {e \in Callers \ {c} : modelCalls.at[e].pc = "writing"}}

\* The caller after the model at k is built with the id modelID: the next model, or
\* the end of the loop.
Built(state, modelID) ==
  [pc |-> IF state.k < Len(state.models) THEN "lookup" ELSE "store",
   models |-> state.models, k |-> state.k + 1,
   built |-> Append(state.built, ModelOf(state.models[state.k], modelID))]

ModelsInit ==
  /\ token = "tok" /\ cache = <<>> /\ now = 0 /\ upstream = <<>> /\ sendResult = Nil
  /\ modelCache = Nil /\ mapping = <<>>
  /\ modelCalls = [at |-> [c \in Callers |-> IdleCall], trace |-> <<>>]
  /\ GetConfig("reasoning") /\ phaseBak = "thinking"
  /\ NoFmt /\ NoStream /\ NoRequest /\ NoRace /\ NoSig /\ NoNorm

\* A request calls GetModels (handlers/models.go 27, request.go 22).
GetModelsCall(c) ==
  /\ modelCalls.at[c].pc = "idle" /\ Begun < MaxModelCalls
  /\ modelCalls' = [at |-> At(c, [pc |-> "check"]),
                    trace |-> Append(modelCalls.trace, [ev |-> "call", caller |-> c])]
  /\ UNCHANGED <<token, cache, now, upstream, sendResult, modelCache, mapping, sendRest>>

\* models.go 41-46: under RLock, s.cache != nil.
GetModelsCheck(c) ==
  /\ modelCalls.at[c].pc = "check"
  /\ modelCalls' = [modelCalls EXCEPT
                      !.at = At(c, [pc |-> IF modelCache # Nil THEN "hit" ELSE "miss"])]
  /\ UNCHANGED <<token, cache, now, upstream, sendResult, modelCache, mapping, sendRest>>

\* models.go 43-44: after RUnlock, return s.cache, nil.
GetModelsReturnCached(c) ==
  /\ modelCalls.at[c].pc = "hit"
  /\ modelCalls' = Returns(c, modelCache, "", FALSE)
  /\ UNCHANGED <<token, cache, now, upstream, sendResult, modelCache, mapping, sendRest>>

\* models.go 48-99: the user, the request to the upstream and the decoding of its
\* answer.
GetModelsFetch(c) ==
  /\ modelCalls.at[c].pc = "miss"
  /\ \E a \in CatalogueAuthReplies, reply \in CatalogueReplies :
       \E u \in {GetUser(token, cache, now, a)} :
         /\ cache' = u.cache
         /\ IF u.err # ""
            THEN /\ upstream' = upstream \o u.requests
                 /\ modelCalls' = Returns(c, Nil, "failed to get user", TRUE)
            ELSE /\ upstream' = upstream \o u.requests
                                  \o <<[to |-> "models", Authorization |-> token]>>
                 /\ modelCalls' =
                      IF reply.kind # "ok" THEN Returns(c, Nil, reply.kind, TRUE)
                      ELSE [modelCalls EXCEPT
                              !.at = At(c, [pc |-> IF reply.models = <<>> THEN "store"
                                                   ELSE "lookup",
                                            models |-> reply.models, k |-> 1,
                                            built |-> <<>>])]
  /\ UNCHANGED <<token, now, sendResult, modelCache, mapping, sendRest>>

\* models.go 254-256, getModelID: the read of cfg.Model.Mapping, under no lock.
GetModelIDLookup(c) ==
  /\ modelCalls.at[c].pc = "lookup"
  /\ \/ /\ OtherWriting(c)
        /\ modelCalls' = Fatal
     \/ \E m \in Readable(c) :
          \E sourceID \in {modelCalls.at[c].models[modelCalls.at[c].k]} :
            modelCalls' =
              [modelCalls EXCEPT
                 !.at = At(c, IF sourceID \in DOMAIN m
                              THEN Built(modelCalls.at[c], m[sourceID])
                              ELSE [modelCalls.at[c] EXCEPT !.pc = "write"])]
  /\ UNCHANGED <<token, cache, now, upstream, sendResult, modelCache, mapping, sendRest>>

\* models.go 259-260: the assignment cfg.Model.Mapping[sourceID] = smartID begins,
\* under no lock.
GetModelIDWrite(c) ==
  /\ modelCalls.at[c].pc = "write"
  /\ \/ /\ OtherWriting(c)
        /\ modelCalls' = Fatal
     \/ modelCalls' = [modelCalls EXCEPT !.at = At(c, [modelCalls.at[c] EXCEPT !.pc = "writing"])]
  /\ UNCHANGED <<token, cache, now, upstream, sendResult, modelCache, mapping, sendRest>>

\* models.go 260-261: the assignment is done, and smartID is the id of the model.
GetModelIDWritten(c) ==
  /\ modelCalls.at[c].pc = "writing"
  /\ \E sourceID \in {modelCalls.at[c].models[modelCalls.at[c].k]} :
       \E smartID \in {SmartID(getModelName(sourceID, sourceID))} :
         /\ mapping' = MappingWith(mapping, sourceID, smartID)
         /\ modelCalls' = [modelCalls EXCEPT !.at = At(c, Built(modelCalls.at[c], smartID))]
  /\ UNCHANGED <<token, cache, now, upstream, sendResult, modelCache, sendRest>>

\* models.go 180-191: the result is stored under Lock and returned.
GetModelsStore(c) ==
  /\ modelCalls.at[c].pc = "store"
  /\ modelCache' = ModelsResponse(modelCalls.at[c].built)
  /\ modelCalls' = Returns(c, ModelsResponse(modelCalls.at[c].built), "", TRUE)
  /\ UNCHANGED <<token, cache, now, upstream, sendResult, mapping, sendRest>>

\* models.go 195-200: ClearCache, under Lock.
ClearCache ==
  /\ ~Crashed /\ Clears < MaxClears
  /\ modelCache' = Nil
  /\ modelCalls' = [modelCalls EXCEPT !.trace = Append(modelCalls.trace, [ev |-> "clear"])]
  /\ UNCHANGED <<token, cache, now, upstream, sendResult, mapping, sendRest>>

ModelsNext ==
  \/ \E c \in Callers :
       \/ GetModelsCall(c)
       \/ GetModelsCheck(c)
       \/ GetModelsReturnCached(c)
       \/ GetModelsFetch(c)
       \/ GetModelIDLookup(c)
       \/ GetModelIDWrite(c)
       \/ GetModelIDWritten(c)
       \/ GetModelsStore(c)
  \/ ClearCache

SpecModels == ModelsInit /\ [][ModelsNext]_vars


(***************************************************************************)
(* Claims about GetModels and ClearCache                                   *)
(***************************************************************************)
\* C32: two requests that both found the model cache empty are never inside their
\* assignments to cfg.Model.Mapping at the same time.
C32_MappingNeverWrittenByTwo ==
  ~ \E c \in Callers, d \in Callers :
      c # d /\ modelCalls.at[c].pc = "writing" /\ modelCalls.at[d].pc = "writing"

ReturnsOfGetModels ==
  {j \in 1..Len(modelCalls.trace) : modelCalls.trace[j].ev = "return"}

\* C33: whatever the interleaving of GetModels and ClearCache, GetModels never
\* returns a nil catalogue together with a nil error.
C33_CatalogueOrError ==
  \A j \in ReturnsOfGetModels :
    modelCalls.trace[j].result = Nil => modelCalls.trace[j].err # ""

\* The call that began at j returned at k.
CallReturnedAt(j, k) ==
  /\ j < k
  /\ modelCalls.trace[j].ev = "call" /\ modelCalls.trace[k].ev = "return"
  /\ modelCalls.trace[k].caller = modelCalls.trace[j].caller
  /\ \A l \in (j + 1)..(k - 1) :
       modelCalls.trace[l].ev = "return"
         => modelCalls.trace[l].caller # modelCalls.trace[j].caller

NoClearBetween(i, k) == \A l \in i..k : modelCalls.trace[l].ev # "clear"

Successful(i) ==
  /\ modelCalls.trace[i].ev = "return" /\ modelCalls.trace[i].err = ""
  /\ modelCalls.trace[i].result # Nil

\* C35: once a call of GetModels has returned a catalogue, every call that begins
\* later and returns before ClearCache is called returns that same catalogue and
\* makes no request to the upstream.
C35_CachedUntilCleared ==
  \A i \in 1..Len(modelCalls.trace), j \in 1..Len(modelCalls.trace),
     k \in 1..Len(modelCalls.trace) :
    (Successful(i) /\ i < j /\ CallReturnedAt(j, k) /\ NoClearBetween(i, k))
      => /\ modelCalls.trace[k].err = ""
         /\ modelCalls.trace[k].result = modelCalls.trace[i].result
         /\ ~ modelCalls.trace[k].fetched


(***************************************************************************)
(* Claims about the cache of UserService                                   *)
(***************************************************************************)
\* The cache holds a user fetched less than 30 minutes ago.
FreshUserCached ==
  \E k \in DOMAIN cache : now - cache[k].CachedAt < TTLMinutes

\* The requests a step adds to those made to the upstream.
NewRequests == {upstream'[j] : j \in (Len(upstream) + 1)..Len(upstream')}

\* C34: a call of GetUser made less than 30 minutes after a fetch that was stored
\* makes no request for the user to the upstream, in anonymous mode as well as with
\* a configured token.
C34_FreshUserNotFetchedAgain ==
  [][FreshUserCached => \A r \in NewRequests : r.to # "auths"]_vars


(***************************************************************************)
(* Claims about the think mode of the loaded configuration                 *)
(***************************************************************************)
\* The text the delta of the call carries, whatever its kind.
FmtDeltaText ==
  IF fmtDelta = Nil THEN <<>>
  ELSE IF HasKey(fmtDelta, "thinking") THEN fmtDelta.thinking
  ELSE IF HasKey(fmtDelta, "reasoning_content") THEN fmtDelta.reasoning_content
  ELSE IF HasKey(fmtDelta, "text") THEN fmtDelta.text
  ELSE IF HasKey(fmtDelta, "content") THEN fmtDelta.content
  ELSE fmtDelta.tool_call

\* C36: once the configuration is loaded the think mode is one of reasoning, think,
\* strip and details, any other value of THINK_TAGS_MODE having become reasoning; so
\* no call of FormatResponse takes the default branch of the switch on the mode,
\* the only one that leaves the close tag of the reasoning in the text.
C36_ThinkModeIsOneOfFour ==
  /\ thinkMode \in ThinkModes
  /\ thinkMode = (IF environ \in ThinkModes THEN environ ELSE "reasoning")
  /\ FmtReturned => ~ ContainsAtom(FmtDeltaText, {ReasoningClose})

\* C36 witness: THINK_TAGS_MODE is none of the four, and an answer event that closes
\* the reasoning was rewritten in the mode reasoning.
C36_Witness ==
  /\ FmtReturned /\ environ = "bogus" /\ thinkMode = "reasoning"
  /\ fmtCall.data.Phase = "answer"
  /\ ContainsAtom(fmtCall.data.DeltaContent, {DetailsClose})
  /\ ContainsAtom(fmtCall.data.DeltaContent, {SummaryClose})
  /\ fmtDelta # Nil


(***************************************************************************)
(* Claims about the store to phaseBak                                      *)
(***************************************************************************)
\* The event of the call has data and a text in delta_content or edit_content.
FmtEventWithContent == HasData(fmtCall.data) /\ EventContent(fmtCall.data) # <<>>

\* C37: a call of FormatResponse leaves in previousPhase the phase of its event after
\* the reclassification whenever the event has content, also when it returns no
\* delta; for an event without data, or with empty delta_content and edit_content,
\* previousPhase is what it was before the call.
C37_PhaseStoredForEveryContent ==
  FmtReturned =>
    IF FmtEventWithContent THEN phaseBak = FmtFinalPhase ELSE phaseBak = fmtCall.phaseBak

\* C37 witness: an event whose content is rewritten to nothing returned no delta and
\* changed previousPhase.
C37_Witness ==
  /\ FmtReturned /\ FmtEventWithContent
  /\ fmtDelta = Nil
  /\ phaseBak # fmtCall.phaseBak


(***************************************************************************)
(* Claims about the text of the deltas                                     *)
(***************************************************************************)
\* C38: every delta FormatResponse returns carries a text that is not empty,
\* whatever the phase of the event and the think mode.
C38_DeltasCarryText ==
  (FmtReturned /\ fmtDelta # Nil) => FmtDeltaText # <<>>


(***************************************************************************)
(* Claims about the bracketing of the streamed Anthropic response          *)
(***************************************************************************)
\* The places in out of the events named e, and of those named e for the block i.
PlacesOf(e) == {k \in 1..Len(out) : out[k].event = e}
PlacesOfBlock(e, i) == {k \in PlacesOf(e) : out[k].index = i}

\* The block i is well bracketed in out: at most one start, a stop only after the
\* start and at most one, every delta after the start and before the stop.
BlockBracketed(i) ==
  /\ Cardinality(PlacesOfBlock("content_block_start", i)) <= 1
  /\ Cardinality(PlacesOfBlock("content_block_stop", i)) <= 1
  /\ \A k \in PlacesOfBlock("content_block_stop", i) :
       \E j \in PlacesOfBlock("content_block_start", i) : j < k
  /\ \A d \in PlacesOfBlock("content_block_delta", i) :
       /\ \E j \in PlacesOfBlock("content_block_start", i) : j < d
       /\ \A k \in PlacesOfBlock("content_block_stop", i) : d < k

\* The response is complete: every block that started has stopped, and
\* message_delta and message_stop, each written once, are its last two events.
StreamClosed ==
  /\ \A i \in {0, 1} :
       Cardinality(PlacesOfBlock("content_block_stop", i))
         = Cardinality(PlacesOfBlock("content_block_start", i))
  /\ PlacesOf("message_delta") = {Len(out) - 1}
  /\ PlacesOf("message_stop") = {Len(out)}

\* C39: the events of a streamed Anthropic response are well bracketed whatever the
\* upstream sends: message_start first and once, each block started at most once and
\* stopped once after its start, deltas only between the start and the stop of their
\* block, the tool_use block started only after the text block has stopped, and
\* message_delta and message_stop once each as the last two events.
C39_StreamWellBracketed ==
  (path = "AnthropicStream" /\ hPc \in {"loop", "returned"}) =>
    /\ PlacesOf("message_start") = {1}
    /\ BlockBracketed(0) /\ BlockBracketed(1)
    /\ \A j \in PlacesOfBlock("content_block_start", 1) :
         \E k \in PlacesOfBlock("content_block_stop", 0) : k < j
    /\ IF hPc = "returned" THEN StreamClosed
       ELSE PlacesOf("message_delta") = {} /\ PlacesOf("message_stop") = {}

\* C39 witness: a complete response with text deltas in the text block and input
\* deltas in the tool_use block.
C39_Witness ==
  /\ path = "AnthropicStream" /\ hPc = "returned"
  /\ PlacesOfBlock("content_block_delta", 0) # {}
  /\ PlacesOfBlock("content_block_delta", 1) # {}
  /\ PlacesOfBlock("content_block_stop", 1) # {}


(***************************************************************************)
(* Claims about the two Anthropic paths on the same upstream events        *)
(***************************************************************************)
NoLocals ==
  [toolCallParts |-> <<>>, textParts |-> <<>>, reasoningParts |-> <<>>,
   hasToolCall |-> FALSE, out |-> <<>>]

\* The texts of the text deltas among the written events o, one after the other.
RECURSIVE TextOfDeltas(_)
TextOfDeltas(o) ==
  IF o = <<>> THEN <<>>
  ELSE (IF o[1].event = "content_block_delta" /\ o[1].index = 0 THEN o[1].text ELSE <<>>)
         \o TextOfDeltas(Tail(o))

\* The text of the text blocks of the message o.
RECURSIVE TextOfContent(_)
TextOfContent(blocks) ==
  IF blocks = <<>> THEN <<>>
  ELSE (IF blocks[1].type = "text" THEN blocks[1].text ELSE <<>>)
         \o TextOfContent(Tail(blocks))

\* What the streaming loop writes for the events evs, from the locals h and the
\* previous phase pb on.
RECURSIVE StreamedFor(_, _, _)
StreamedFor(evs, h, pb) ==
  IF evs = <<>> THEN h.out
  ELSE LET r == AnthropicStreamBody(evs[1],
                  FormatResponse(evs[1], "Anthropic", thinkMode, pb), h, pb)
       IN IF r.ctl = "continue" THEN StreamedFor(Tail(evs), r.h, r.phaseBak) ELSE r.h.out

\* C40: the text of the non-streaming Anthropic response is the concatenation of the
\* text deltas the streaming Anthropic response sends for the same upstream events
\* (whatever the previous phase was when the stream began).
C40_SameTextOnBothPaths ==
  (path = "AnthropicJSON" /\ hPc = "returned") =>
    \E pb \in PhaseBakValues :
      TextOfContent(out[1].content) = TextOfDeltas(StreamedFor(delivered, NoLocals, pb))

=============================================================================
